---- MODULE Spec2Model ----
(***************************************************************************)
(* Model of the multi-agent review / refinement controller of              *)
(* generate_design.py (and the candidate selection of                      *)
(* generate_requirement_leader.py).                                        *)
(*                                                                         *)
(* Text is a sequence of tokens.  A token is one character, or one fixed   *)
(* literal of the source written in ASCII:                                 *)
(*   "<default-model>"   stands for the literal  默认模型                  *)
(*   "<issues-heading>"  stands for the literal  具体问题：                *)
(*   "<advice-heading>"  stands for the literal  综合建议：                *)
(*   "<[>" and "<]>"     stand for the brackets  【  and  】                *)
(*   "<ben>" "<lun>" "<dui>" "<qi>" "<zhai>" "<yao>"  stand for the six    *)
(*                       characters of  本轮对齐摘要                       *)
(* A model identity is one token; None is the token "<None>".              *)
(***************************************************************************)
EXTENDS Bags, FiniteSets, Integers, Sequences, TLC

\* ------------------------------------------------------------------------
\* Program constants
\* ------------------------------------------------------------------------

\* generate_design.py:36
GENERATE_CANDIDATES == 5

\* generate_design.py:39
ALIGN_ROUNDS == 5

\* generate_design.py:43
REVIEW_OPTIMIZE_FACTOR == 5

\* ------------------------------------------------------------------------
\* Bounds of the model
\* ------------------------------------------------------------------------

\* longest configured doc_reviewer list
MaxReviewers == 2

\* longest configured doc_writer list
MaxWriters == 2

\* longest module list returned by step 4
MaxModules == 2

\* longest verdict list given to the pure functions
MaxVerdicts == 2

\* longest label list given to the pure functions
MaxLabels == 2

\* largest total_score / issue_count of the enumerated score tables
MaxTotal == 1
MaxTextLen == 3
MaxScriptLen == 2

\* ------------------------------------------------------------------------
\* Values
\* ------------------------------------------------------------------------

None == "<None>"

\* identities a configuration may name, in configured order
ModelNames == <<"gpt", "claude", "gemini", "qwen", "glm">>

EmptyText == <<>>

\* issue texts and suggestion texts a reviewer may give
IssueX == <<"x">>
IssueY == <<"y">>
Advice == <<"s">>

IssueLists == {<<>>, <<IssueX>>, <<IssueX, IssueY>>}
SuggestionTexts == {EmptyText, Advice}

\* sequences over S of length 0..n
SeqUpTo(S, n) == UNION {[1..m -> S] : m \in 0..n}

\* F applied to the value of v, which is computed once
Bind(v, F(_)) == CHOOSE r \in {F(x) : x \in {v}} : TRUE

\* "sep".join(parts) of Python, the two halves of parts joined
RECURSIVE Join(_, _)
Join(sep, parts) ==
  Bind(parts, LAMBDA ps :
    IF Len(ps) = 0 THEN EmptyText
    ELSE IF Len(ps) = 1 THEN ps[1]
    ELSE Join(sep, SubSeq(ps, 1, Len(ps) \div 2)) \o sep
         \o Join(sep, SubSeq(ps, Len(ps) \div 2 + 1, Len(ps))))

\* the smallest member of a non-empty set of positions
FirstOf(ps) == CHOOSE p \in ps : \A q \in ps : p <= q

\* the largest member of a non-empty set of positions
LastOf(ps) == 0 - FirstOf({0 - p : p \in ps})

\* ------------------------------------------------------------------------
\* Characters.  A text is the sequence of its characters.  A character that
\* a string of this module can hold stands for itself, a piece of fixed
\* wording is one token such as "<issues-heading>", and any other character
\* is the token "<U+XXXX>" of its code point, in upper-case hexadecimal
\* ------------------------------------------------------------------------

DigitChars == <<"0", "1", "2", "3", "4", "5", "6", "7", "8", "9">>

UpperChars ==
  <<"A", "B", "C", "D", "E", "F", "G", "H", "I", "J", "K", "L", "M",
    "N", "O", "P", "Q", "R", "S", "T", "U", "V", "W", "X", "Y", "Z">>

LowerChars ==
  <<"a", "b", "c", "d", "e", "f", "g", "h", "i", "j", "k", "l", "m",
    "n", "o", "p", "q", "r", "s", "t", "u", "v", "w", "x", "y", "z">>

HexChars == DigitChars \o <<"A", "B", "C", "D", "E", "F">>

LowerHexChars == DigitChars \o <<"a", "b", "c", "d", "e", "f">>

\* chr(32) .. chr(126); the grave accent is a token
AsciiChars ==
  <<" ", "!", "\"", "#", "$", "%", "&", "'", "(", ")", "*", "+", ",", "-",
    ".", "/">> \o DigitChars \o <<":", ";", "<", "=", ">", "?", "@">>
  \o UpperChars \o <<"[", "\\", "]", "^", "_", "<U+0060>">> \o LowerChars
  \o <<"{", "|", "}", "~">>

\* the digits of n >= 0 to the base 16, as one string
RECURSIVE hex_digits(_, _)
hex_digits(n, chars) ==
  IF n < 16 THEN chars[n + 1]
  ELSE hex_digits(n \div 16, chars) \o chars[(n % 16) + 1]

\* zeros put before the string h up to the width w
RECURSIVE zero_padded(_, _)
zero_padded(h, w) == IF Len(h) < w THEN zero_padded("0" \o h, w) ELSE h

\* chr(n)
chr(n) ==
  CASE n \in 32..126 -> AsciiChars[n - 31]
    [] n = 9  -> "\t"
    [] n = 10 -> "\n"
    [] n = 12 -> "\f"
    [] n = 13 -> "\r"
    [] OTHER  -> "<U+" \o zero_padded(hex_digits(n, HexChars), 4) \o ">"

\* the value of a string of hexadecimal digits
RECURSIVE hex_value(_)
hex_value(h) ==
  IF Len(h) = 0 THEN 0
  ELSE 16 * hex_value(SubSeq(h, 1, Len(h) - 1))
       + (CHOOSE d \in 0..15 :
            SubSeq(h, Len(h), Len(h)) \in {HexChars[d + 1], LowerHexChars[d + 1]})

\* c is a token "<U+XXXX>"
is_code_token(c) ==
  /\ Len(c) >= 8
  /\ SubSeq(c, 1, 3) = "<U+"
  /\ SubSeq(c, Len(c), Len(c)) = ">"

\* ord(c); -1 for a token of fixed wording
ord(c) ==
  CASE c = "\t" -> 9
    [] c = "\n" -> 10
    [] c = "\f" -> 12
    [] c = "\r" -> 13
    [] \E n \in 32..126 : AsciiChars[n - 31] = c ->
         CHOOSE n \in 32..126 : AsciiChars[n - 31] = c
    [] is_code_token(c) -> hex_value(SubSeq(c, 4, Len(c) - 1))
    [] OTHER -> 0 - 1

\* [0-9]
IsDigit(c) == c \in {"0", "1", "2", "3", "4", "5", "6", "7", "8", "9"}

DigitValue(c) == (CHOOSE d \in 1..10 : DigitChars[d] = c) - 1

\* n is in one of the ranges <<first, last>> of rs
in_ranges(n, rs) == \E i \in 1..Len(rs) : rs[i][1] <= n /\ n <= rs[i][2]

\* the code points of the digits 0 of the decimal digits (category Nd) of
\* Unicode 14.0.0, each the first of the ten digits 0..9 of one script
DecimalZeros ==
  {48, 1632, 1776, 1984, 2406, 2534, 2662, 2790, 2918, 3046,
   3174, 3302, 3430, 3558, 3664, 3792, 3872, 4160, 4240, 6112,
   6160, 6470, 6608, 6784, 6800, 6992, 7088, 7232, 7248, 42528,
   43216, 43264, 43472, 43504, 43600, 44016, 65296, 66720, 68912, 69734,
   69872, 69942, 70096, 70384, 70736, 70864, 71248, 71360, 71472, 71904,
   72016, 72784, 73040, 73120, 92768, 92864, 93008, 120782, 120792, 120802,
   120812, 120822, 123200, 123632, 125264, 130032}

\* the code point of the digit 0 of the script of the decimal digit chr(n);
\* -1 when chr(n) is no decimal digit
decimal_zero(n) ==
  LET zs == {z \in DecimalZeros : z <= n /\ n <= z + 9}
  IN IF zs = {} THEN 0 - 1 ELSE CHOOSE z \in zs : TRUE

\* the code points of the digits that are no decimal digits: superscripts,
\* subscripts, circled digits, Ethiopic digits and the like
OtherDigitRanges ==
  <<<<178, 179>>, <<185, 185>>, <<4969, 4977>>, <<6618, 6618>>, <<8304, 8304>>,
    <<8308, 8313>>, <<8320, 8329>>, <<9312, 9320>>, <<9332, 9340>>, <<9352, 9360>>,
    <<9450, 9450>>, <<9461, 9469>>, <<9471, 9471>>, <<10102, 10110>>, <<10112, 10120>>,
    <<10122, 10130>>, <<68160, 68163>>, <<69216, 69224>>, <<69714, 69722>>, <<127232, 127242>>>>

\* str.isdecimal of one character: \d of re, and what int() takes
IsDecimal(c) == IsDigit(c) \/ (is_code_token(c) /\ decimal_zero(ord(c)) >= 0)

\* str.isdigit of one character
isdigit_char(c) ==
  \/ IsDecimal(c)
  \/ is_code_token(c) /\ in_ranges(ord(c), OtherDigitRanges)

\* the digit a decimal character stands for
decimal_value(c) ==
  IF IsDigit(c) THEN DigitValue(c) ELSE ord(c) - decimal_zero(ord(c))

\* the code points str.isspace holds for whitespace
WhitespaceCodes ==
  {9, 10, 11, 12, 13, 28, 29, 30, 31, 32, 133, 160, 5760}
    \cup (8192..8202) \cup {8232, 8233, 8239, 8287, 12288}

WhitespaceChars == {chr(n) : n \in WhitespaceCodes}

\* str.isspace of one character: \s of re, and what str.strip() removes
IsSpace(c) == c \in WhitespaceChars

\* the whitespace of json: space, tab, line feed, carriage return
IsJsonSpace(c) == c \in {" ", "\t", "\n", "\r"}

\* the characters below chr(32), which json takes in no string
ControlChars == {chr(n) : n \in 0..31}

\* the code points str.isprintable does not hold for printable, in Unicode
\* 14.0.0: the categories Cc, Cf, Cs, Co, Cn, Zl, Zp and Zs but the space
NonPrintableRanges ==
  <<<<0, 31>>, <<127, 160>>, <<173, 173>>, <<888, 889>>, <<896, 899>>,
    <<907, 907>>, <<909, 909>>, <<930, 930>>, <<1328, 1328>>, <<1367, 1368>>,
    <<1419, 1420>>, <<1424, 1424>>, <<1480, 1487>>, <<1515, 1518>>, <<1525, 1541>>,
    <<1564, 1564>>, <<1757, 1757>>, <<1806, 1807>>, <<1867, 1868>>, <<1970, 1983>>,
    <<2043, 2044>>, <<2094, 2095>>, <<2111, 2111>>, <<2140, 2141>>, <<2143, 2143>>,
    <<2155, 2159>>, <<2191, 2199>>, <<2274, 2274>>, <<2436, 2436>>, <<2445, 2446>>,
    <<2449, 2450>>, <<2473, 2473>>, <<2481, 2481>>, <<2483, 2485>>, <<2490, 2491>>,
    <<2501, 2502>>, <<2505, 2506>>, <<2511, 2518>>, <<2520, 2523>>, <<2526, 2526>>,
    <<2532, 2533>>, <<2559, 2560>>, <<2564, 2564>>, <<2571, 2574>>, <<2577, 2578>>,
    <<2601, 2601>>, <<2609, 2609>>, <<2612, 2612>>, <<2615, 2615>>, <<2618, 2619>>,
    <<2621, 2621>>, <<2627, 2630>>, <<2633, 2634>>, <<2638, 2640>>, <<2642, 2648>>,
    <<2653, 2653>>, <<2655, 2661>>, <<2679, 2688>>, <<2692, 2692>>, <<2702, 2702>>,
    <<2706, 2706>>, <<2729, 2729>>, <<2737, 2737>>, <<2740, 2740>>, <<2746, 2747>>,
    <<2758, 2758>>, <<2762, 2762>>, <<2766, 2767>>, <<2769, 2783>>, <<2788, 2789>>,
    <<2802, 2808>>, <<2816, 2816>>, <<2820, 2820>>, <<2829, 2830>>, <<2833, 2834>>,
    <<2857, 2857>>, <<2865, 2865>>, <<2868, 2868>>, <<2874, 2875>>, <<2885, 2886>>,
    <<2889, 2890>>, <<2894, 2900>>, <<2904, 2907>>, <<2910, 2910>>, <<2916, 2917>>,
    <<2936, 2945>>, <<2948, 2948>>, <<2955, 2957>>, <<2961, 2961>>, <<2966, 2968>>,
    <<2971, 2971>>, <<2973, 2973>>, <<2976, 2978>>, <<2981, 2983>>, <<2987, 2989>>,
    <<3002, 3005>>, <<3011, 3013>>, <<3017, 3017>>, <<3022, 3023>>, <<3025, 3030>>,
    <<3032, 3045>>, <<3067, 3071>>, <<3085, 3085>>, <<3089, 3089>>, <<3113, 3113>>,
    <<3130, 3131>>, <<3141, 3141>>, <<3145, 3145>>, <<3150, 3156>>, <<3159, 3159>>,
    <<3163, 3164>>, <<3166, 3167>>, <<3172, 3173>>, <<3184, 3190>>, <<3213, 3213>>,
    <<3217, 3217>>, <<3241, 3241>>, <<3252, 3252>>, <<3258, 3259>>, <<3269, 3269>>,
    <<3273, 3273>>, <<3278, 3284>>, <<3287, 3292>>, <<3295, 3295>>, <<3300, 3301>>,
    <<3312, 3312>>, <<3315, 3327>>, <<3341, 3341>>, <<3345, 3345>>, <<3397, 3397>>,
    <<3401, 3401>>, <<3408, 3411>>, <<3428, 3429>>, <<3456, 3456>>, <<3460, 3460>>,
    <<3479, 3481>>, <<3506, 3506>>, <<3516, 3516>>, <<3518, 3519>>, <<3527, 3529>>,
    <<3531, 3534>>, <<3541, 3541>>, <<3543, 3543>>, <<3552, 3557>>, <<3568, 3569>>,
    <<3573, 3584>>, <<3643, 3646>>, <<3676, 3712>>, <<3715, 3715>>, <<3717, 3717>>,
    <<3723, 3723>>, <<3748, 3748>>, <<3750, 3750>>, <<3774, 3775>>, <<3781, 3781>>,
    <<3783, 3783>>, <<3790, 3791>>, <<3802, 3803>>, <<3808, 3839>>, <<3912, 3912>>,
    <<3949, 3952>>, <<3992, 3992>>, <<4029, 4029>>, <<4045, 4045>>, <<4059, 4095>>,
    <<4294, 4294>>, <<4296, 4300>>, <<4302, 4303>>, <<4681, 4681>>, <<4686, 4687>>,
    <<4695, 4695>>, <<4697, 4697>>, <<4702, 4703>>, <<4745, 4745>>, <<4750, 4751>>,
    <<4785, 4785>>, <<4790, 4791>>, <<4799, 4799>>, <<4801, 4801>>, <<4806, 4807>>,
    <<4823, 4823>>, <<4881, 4881>>, <<4886, 4887>>, <<4955, 4956>>, <<4989, 4991>>,
    <<5018, 5023>>, <<5110, 5111>>, <<5118, 5119>>, <<5760, 5760>>, <<5789, 5791>>,
    <<5881, 5887>>, <<5910, 5918>>, <<5943, 5951>>, <<5972, 5983>>, <<5997, 5997>>,
    <<6001, 6001>>, <<6004, 6015>>, <<6110, 6111>>, <<6122, 6127>>, <<6138, 6143>>,
    <<6158, 6158>>, <<6170, 6175>>, <<6265, 6271>>, <<6315, 6319>>, <<6390, 6399>>,
    <<6431, 6431>>, <<6444, 6447>>, <<6460, 6463>>, <<6465, 6467>>, <<6510, 6511>>,
    <<6517, 6527>>, <<6572, 6575>>, <<6602, 6607>>, <<6619, 6621>>, <<6684, 6685>>,
    <<6751, 6751>>, <<6781, 6782>>, <<6794, 6799>>, <<6810, 6815>>, <<6830, 6831>>,
    <<6863, 6911>>, <<6989, 6991>>, <<7039, 7039>>, <<7156, 7163>>, <<7224, 7226>>,
    <<7242, 7244>>, <<7305, 7311>>, <<7355, 7356>>, <<7368, 7375>>, <<7419, 7423>>,
    <<7958, 7959>>, <<7966, 7967>>, <<8006, 8007>>, <<8014, 8015>>, <<8024, 8024>>,
    <<8026, 8026>>, <<8028, 8028>>, <<8030, 8030>>, <<8062, 8063>>, <<8117, 8117>>,
    <<8133, 8133>>, <<8148, 8149>>, <<8156, 8156>>, <<8176, 8177>>, <<8181, 8181>>,
    <<8191, 8207>>, <<8232, 8239>>, <<8287, 8303>>, <<8306, 8307>>, <<8335, 8335>>,
    <<8349, 8351>>, <<8385, 8399>>, <<8433, 8447>>, <<8588, 8591>>, <<9255, 9279>>,
    <<9291, 9311>>, <<11124, 11125>>, <<11158, 11158>>, <<11508, 11512>>, <<11558, 11558>>,
    <<11560, 11564>>, <<11566, 11567>>, <<11624, 11630>>, <<11633, 11646>>, <<11671, 11679>>,
    <<11687, 11687>>, <<11695, 11695>>, <<11703, 11703>>, <<11711, 11711>>, <<11719, 11719>>,
    <<11727, 11727>>, <<11735, 11735>>, <<11743, 11743>>, <<11870, 11903>>, <<11930, 11930>>,
    <<12020, 12031>>, <<12246, 12271>>, <<12284, 12288>>, <<12352, 12352>>, <<12439, 12440>>,
    <<12544, 12548>>, <<12592, 12592>>, <<12687, 12687>>, <<12772, 12783>>, <<12831, 12831>>,
    <<42125, 42127>>, <<42183, 42191>>, <<42540, 42559>>, <<42744, 42751>>, <<42955, 42959>>,
    <<42962, 42962>>, <<42964, 42964>>, <<42970, 42993>>, <<43053, 43055>>, <<43066, 43071>>,
    <<43128, 43135>>, <<43206, 43213>>, <<43226, 43231>>, <<43348, 43358>>, <<43389, 43391>>,
    <<43470, 43470>>, <<43482, 43485>>, <<43519, 43519>>, <<43575, 43583>>, <<43598, 43599>>,
    <<43610, 43611>>, <<43715, 43738>>, <<43767, 43776>>, <<43783, 43784>>, <<43791, 43792>>,
    <<43799, 43807>>, <<43815, 43815>>, <<43823, 43823>>, <<43884, 43887>>, <<44014, 44015>>,
    <<44026, 44031>>, <<55204, 55215>>, <<55239, 55242>>, <<55292, 63743>>, <<64110, 64111>>,
    <<64218, 64255>>, <<64263, 64274>>, <<64280, 64284>>, <<64311, 64311>>, <<64317, 64317>>,
    <<64319, 64319>>, <<64322, 64322>>, <<64325, 64325>>, <<64451, 64466>>, <<64912, 64913>>,
    <<64968, 64974>>, <<64976, 65007>>, <<65050, 65055>>, <<65107, 65107>>, <<65127, 65127>>,
    <<65132, 65135>>, <<65141, 65141>>, <<65277, 65280>>, <<65471, 65473>>, <<65480, 65481>>,
    <<65488, 65489>>, <<65496, 65497>>, <<65501, 65503>>, <<65511, 65511>>, <<65519, 65531>>,
    <<65534, 65535>>, <<65548, 65548>>, <<65575, 65575>>, <<65595, 65595>>, <<65598, 65598>>,
    <<65614, 65615>>, <<65630, 65663>>, <<65787, 65791>>, <<65795, 65798>>, <<65844, 65846>>,
    <<65935, 65935>>, <<65949, 65951>>, <<65953, 65999>>, <<66046, 66175>>, <<66205, 66207>>,
    <<66257, 66271>>, <<66300, 66303>>, <<66340, 66348>>, <<66379, 66383>>, <<66427, 66431>>,
    <<66462, 66462>>, <<66500, 66503>>, <<66518, 66559>>, <<66718, 66719>>, <<66730, 66735>>,
    <<66772, 66775>>, <<66812, 66815>>, <<66856, 66863>>, <<66916, 66926>>, <<66939, 66939>>,
    <<66955, 66955>>, <<66963, 66963>>, <<66966, 66966>>, <<66978, 66978>>, <<66994, 66994>>,
    <<67002, 67002>>, <<67005, 67071>>, <<67383, 67391>>, <<67414, 67423>>, <<67432, 67455>>,
    <<67462, 67462>>, <<67505, 67505>>, <<67515, 67583>>, <<67590, 67591>>, <<67593, 67593>>,
    <<67638, 67638>>, <<67641, 67643>>, <<67645, 67646>>, <<67670, 67670>>, <<67743, 67750>>,
    <<67760, 67807>>, <<67827, 67827>>, <<67830, 67834>>, <<67868, 67870>>, <<67898, 67902>>,
    <<67904, 67967>>, <<68024, 68027>>, <<68048, 68049>>, <<68100, 68100>>, <<68103, 68107>>,
    <<68116, 68116>>, <<68120, 68120>>, <<68150, 68151>>, <<68155, 68158>>, <<68169, 68175>>,
    <<68185, 68191>>, <<68256, 68287>>, <<68327, 68330>>, <<68343, 68351>>, <<68406, 68408>>,
    <<68438, 68439>>, <<68467, 68471>>, <<68498, 68504>>, <<68509, 68520>>, <<68528, 68607>>,
    <<68681, 68735>>, <<68787, 68799>>, <<68851, 68857>>, <<68904, 68911>>, <<68922, 69215>>,
    <<69247, 69247>>, <<69290, 69290>>, <<69294, 69295>>, <<69298, 69375>>, <<69416, 69423>>,
    <<69466, 69487>>, <<69514, 69551>>, <<69580, 69599>>, <<69623, 69631>>, <<69710, 69713>>,
    <<69750, 69758>>, <<69821, 69821>>, <<69827, 69839>>, <<69865, 69871>>, <<69882, 69887>>,
    <<69941, 69941>>, <<69960, 69967>>, <<70007, 70015>>, <<70112, 70112>>, <<70133, 70143>>,
    <<70162, 70162>>, <<70207, 70271>>, <<70279, 70279>>, <<70281, 70281>>, <<70286, 70286>>,
    <<70302, 70302>>, <<70314, 70319>>, <<70379, 70383>>, <<70394, 70399>>, <<70404, 70404>>,
    <<70413, 70414>>, <<70417, 70418>>, <<70441, 70441>>, <<70449, 70449>>, <<70452, 70452>>,
    <<70458, 70458>>, <<70469, 70470>>, <<70473, 70474>>, <<70478, 70479>>, <<70481, 70486>>,
    <<70488, 70492>>, <<70500, 70501>>, <<70509, 70511>>, <<70517, 70655>>, <<70748, 70748>>,
    <<70754, 70783>>, <<70856, 70863>>, <<70874, 71039>>, <<71094, 71095>>, <<71134, 71167>>,
    <<71237, 71247>>, <<71258, 71263>>, <<71277, 71295>>, <<71354, 71359>>, <<71370, 71423>>,
    <<71451, 71452>>, <<71468, 71471>>, <<71495, 71679>>, <<71740, 71839>>, <<71923, 71934>>,
    <<71943, 71944>>, <<71946, 71947>>, <<71956, 71956>>, <<71959, 71959>>, <<71990, 71990>>,
    <<71993, 71994>>, <<72007, 72015>>, <<72026, 72095>>, <<72104, 72105>>, <<72152, 72153>>,
    <<72165, 72191>>, <<72264, 72271>>, <<72355, 72367>>, <<72441, 72703>>, <<72713, 72713>>,
    <<72759, 72759>>, <<72774, 72783>>, <<72813, 72815>>, <<72848, 72849>>, <<72872, 72872>>,
    <<72887, 72959>>, <<72967, 72967>>, <<72970, 72970>>, <<73015, 73017>>, <<73019, 73019>>,
    <<73022, 73022>>, <<73032, 73039>>, <<73050, 73055>>, <<73062, 73062>>, <<73065, 73065>>,
    <<73103, 73103>>, <<73106, 73106>>, <<73113, 73119>>, <<73130, 73439>>, <<73465, 73647>>,
    <<73649, 73663>>, <<73714, 73726>>, <<74650, 74751>>, <<74863, 74863>>, <<74869, 74879>>,
    <<75076, 77711>>, <<77811, 77823>>, <<78895, 82943>>, <<83527, 92159>>, <<92729, 92735>>,
    <<92767, 92767>>, <<92778, 92781>>, <<92863, 92863>>, <<92874, 92879>>, <<92910, 92911>>,
    <<92918, 92927>>, <<92998, 93007>>, <<93018, 93018>>, <<93026, 93026>>, <<93048, 93052>>,
    <<93072, 93759>>, <<93851, 93951>>, <<94027, 94030>>, <<94088, 94094>>, <<94112, 94175>>,
    <<94181, 94191>>, <<94194, 94207>>, <<100344, 100351>>, <<101590, 101631>>, <<101641, 110575>>,
    <<110580, 110580>>, <<110588, 110588>>, <<110591, 110591>>, <<110883, 110927>>, <<110931, 110947>>,
    <<110952, 110959>>, <<111356, 113663>>, <<113771, 113775>>, <<113789, 113791>>, <<113801, 113807>>,
    <<113818, 113819>>, <<113824, 118527>>, <<118574, 118575>>, <<118599, 118607>>, <<118724, 118783>>,
    <<119030, 119039>>, <<119079, 119080>>, <<119155, 119162>>, <<119275, 119295>>, <<119366, 119519>>,
    <<119540, 119551>>, <<119639, 119647>>, <<119673, 119807>>, <<119893, 119893>>, <<119965, 119965>>,
    <<119968, 119969>>, <<119971, 119972>>, <<119975, 119976>>, <<119981, 119981>>, <<119994, 119994>>,
    <<119996, 119996>>, <<120004, 120004>>, <<120070, 120070>>, <<120075, 120076>>, <<120085, 120085>>,
    <<120093, 120093>>, <<120122, 120122>>, <<120127, 120127>>, <<120133, 120133>>, <<120135, 120137>>,
    <<120145, 120145>>, <<120486, 120487>>, <<120780, 120781>>, <<121484, 121498>>, <<121504, 121504>>,
    <<121520, 122623>>, <<122655, 122879>>, <<122887, 122887>>, <<122905, 122906>>, <<122914, 122914>>,
    <<122917, 122917>>, <<122923, 123135>>, <<123181, 123183>>, <<123198, 123199>>, <<123210, 123213>>,
    <<123216, 123535>>, <<123567, 123583>>, <<123642, 123646>>, <<123648, 124895>>, <<124903, 124903>>,
    <<124908, 124908>>, <<124911, 124911>>, <<124927, 124927>>, <<125125, 125126>>, <<125143, 125183>>,
    <<125260, 125263>>, <<125274, 125277>>, <<125280, 126064>>, <<126133, 126208>>, <<126270, 126463>>,
    <<126468, 126468>>, <<126496, 126496>>, <<126499, 126499>>, <<126501, 126502>>, <<126504, 126504>>,
    <<126515, 126515>>, <<126520, 126520>>, <<126522, 126522>>, <<126524, 126529>>, <<126531, 126534>>,
    <<126536, 126536>>, <<126538, 126538>>, <<126540, 126540>>, <<126544, 126544>>, <<126547, 126547>>,
    <<126549, 126550>>, <<126552, 126552>>, <<126554, 126554>>, <<126556, 126556>>, <<126558, 126558>>,
    <<126560, 126560>>, <<126563, 126563>>, <<126565, 126566>>, <<126571, 126571>>, <<126579, 126579>>,
    <<126584, 126584>>, <<126589, 126589>>, <<126591, 126591>>, <<126602, 126602>>, <<126620, 126624>>,
    <<126628, 126628>>, <<126634, 126634>>, <<126652, 126703>>, <<126706, 126975>>, <<127020, 127023>>,
    <<127124, 127135>>, <<127151, 127152>>, <<127168, 127168>>, <<127184, 127184>>, <<127222, 127231>>,
    <<127406, 127461>>, <<127491, 127503>>, <<127548, 127551>>, <<127561, 127567>>, <<127570, 127583>>,
    <<127590, 127743>>, <<128728, 128732>>, <<128749, 128751>>, <<128765, 128767>>, <<128884, 128895>>,
    <<128985, 128991>>, <<129004, 129007>>, <<129009, 129023>>, <<129036, 129039>>, <<129096, 129103>>,
    <<129114, 129119>>, <<129160, 129167>>, <<129198, 129199>>, <<129202, 129279>>, <<129620, 129631>>,
    <<129646, 129647>>, <<129653, 129655>>, <<129661, 129663>>, <<129671, 129679>>, <<129709, 129711>>,
    <<129723, 129727>>, <<129734, 129743>>, <<129754, 129759>>, <<129768, 129775>>, <<129783, 129791>>,
    <<129939, 129939>>, <<129995, 130031>>, <<130042, 131071>>, <<173792, 173823>>, <<177977, 177983>>,
    <<178206, 178207>>, <<183970, 183983>>, <<191457, 194559>>, <<195102, 196607>>, <<201547, 917759>>,
    <<918000, 1114111>>>>

\* chr(n).isprintable()
isprintable_code(n) == n \in 32..126 \/ ~in_ranges(n, NonPrintableRanges)

\* ------------------------------------------------------------------------
\* Numbers.  An int of Python below 10^9 is an integer of this module, a
\* larger one the record BigInt of the text of its digits.  The arithmetic
\* of the larger ones and of the floats goes through the sequence of the
\* decimal digits 0..9 of a number, the first digit first, with no zero at
\* the front; the empty sequence is 0
\* ------------------------------------------------------------------------

\* an int of Python of ten digits or more: its sign and digits as a text
BigInt(txt) == [t |-> "bigint", v |-> txt]

\* x is a record, not an integer, a string or a sequence
is_record(x) == SubSeq(ToString(x), 1, 1) = "["

\* a without the zeros at its front
trim_zeros(a) ==
  Bind(a, LAMBDA x :
    IF Len(x) = 0 \/ x[1] # 0 THEN x
    ELSE Bind({i \in 1..Len(x) : x[i] # 0}, LAMBDA nz :
           IF nz = {} THEN <<>> ELSE SubSeq(x, FirstOf(nz), Len(x))))

\* n times the digit 0
zero_digits(n) == [i \in 1..n |-> 0]

\* the number of up to nine digits a
nat_value(a) ==
  Bind(zero_digits(9 - Len(a)) \o a, LAMBDA d :
    d[1] * 100000000 + d[2] * 10000000 + d[3] * 1000000 + d[4] * 100000
    + d[5] * 10000 + d[6] * 1000 + d[7] * 100 + d[8] * 10 + d[9])

\* the digits of the integer n >= 0
nat_digits(n) == trim_zeros([i \in 1..10 |-> (n \div (10 ^ (10 - i))) % 10])

\* the text of the digits a
digits_text(a) ==
  IF Len(a) = 0 THEN <<"0">> ELSE [i \in 1..Len(a) |-> DigitChars[a[i] + 1]]

\* the int of Python with the digits a, negative when neg
py_int(neg, a) ==
  Bind(a, LAMBDA x :
    IF Len(x) <= 9 THEN (IF neg THEN 0 - nat_value(x) ELSE nat_value(x))
    ELSE BigInt((IF neg THEN <<"-">> ELSE <<>>) \o digits_text(x)))

\* x is an int of Python of ten digits or more
is_bigint(x) == is_record(x) /\ x.t = "bigint"

\* the int x of Python is negative
py_negative(x) == IF is_bigint(x) THEN x.v[1] = "-" ELSE x < 0

\* the digits of abs(x) of an int x of Python
py_digits(x) ==
  IF is_bigint(x)
    THEN Bind(IF x.v[1] = "-" THEN Tail(x.v) ELSE x.v, LAMBDA d :
           [i \in 1..Len(d) |-> DigitValue(d[i])])
  ELSE nat_digits(IF x < 0 THEN 0 - x ELSE x)

\* 2 * a: the carry into a digit is 1 when the digit after it is 5 or more
double(a) ==
  Bind(a, LAMBDA x :
    (IF Len(x) > 0 /\ x[1] >= 5 THEN <<1>> ELSE <<>>)
    \o [i \in 1..Len(x) |->
          ((2 * x[i]) % 10) + (IF i < Len(x) /\ x[i + 1] >= 5 THEN 1 ELSE 0)])

\* a \div 2: an odd digit hands 10 to the digit after it
halve(a) ==
  Bind(a, LAMBDA x :
    SubSeq([i \in 1..Len(x) |->
              (x[i] + (IF i > 1 /\ x[i - 1] % 2 = 1 THEN 10 ELSE 0)) \div 2],
           IF Len(x) > 0 /\ x[1] <= 1 THEN 2 ELSE 1, Len(x)))

\* 5 * a, the half of 10 * a
times5(a) == halve(a \o <<0>>)

\* a * 2^k, by halves of k
RECURSIVE times_pow2(_, _)
times_pow2(a, k) ==
  Bind(k, LAMBDA n :
    IF n = 0 THEN a
    ELSE IF n = 1 THEN double(a)
    ELSE Bind(times_pow2(a, n \div 2), LAMBDA h : times_pow2(h, n - n \div 2)))

\* a * 5^k, by halves of k
RECURSIVE times_pow5(_, _)
times_pow5(a, k) ==
  Bind(k, LAMBDA n :
    IF n = 0 THEN a
    ELSE IF n = 1 THEN times5(a)
    ELSE Bind(times_pow5(a, n \div 2), LAMBDA h : times_pow5(h, n - n \div 2)))

\* a < b
less(a, b) ==
  Bind(<<a, b>>, LAMBDA x :
    \/ Len(x[1]) < Len(x[2])
    \/ /\ Len(x[1]) = Len(x[2])
       /\ Bind({i \in 1..Len(x[1]) : x[1][i] # x[2][i]}, LAMBDA d :
            d # {} /\ x[1][FirstOf(d)] < x[2][FirstOf(d)]))

\* a + 1
succ(a) ==
  Bind(a, LAMBDA x :
    Bind({i \in 1..Len(x) : x[i] # 9}, LAMBDA low :
      IF low = {} THEN <<1>> \o zero_digits(Len(x))
      ELSE Bind(LastOf(low), LAMBDA j :
             [i \in 1..Len(x) |->
                IF i < j THEN x[i] ELSE IF i = j THEN x[i] + 1 ELSE 0])))

\* a - 1 of a > 0
pred(a) ==
  Bind(a, LAMBDA x :
    Bind(LastOf({i \in 1..Len(x) : x[i] # 0}), LAMBDA j :
      trim_zeros([i \in 1..Len(x) |->
                    IF i < j THEN x[i] ELSE IF i = j THEN x[i] - 1 ELSE 9])))

\* the digits a in groups of eight from the right, each group the number
\* it stands for: the digits of a to the base 10^8
groups_of(a) ==
  Bind(a, LAMBDA x :
    Bind((Len(x) + 7) \div 8, LAMBDA m :
      [k \in 1..m |->
         nat_value(SubSeq(x, IF Len(x) - 8 * (m - k + 1) + 1 < 1 THEN 1
                                ELSE Len(x) - 8 * (m - k + 1) + 1,
                          Len(x) - 8 * (m - k)))]))

\* the digits of the number whose digits to the base 10^8 are g
digits_of_groups(g) ==
  Bind(g, LAMBDA x :
    trim_zeros([i \in 1..(8 * Len(x)) |->
                  (x[((i - 1) \div 8) + 1] \div (10 ^ (7 - ((i - 1) % 8)))) % 10]))

\* a + b, group by group: the carry into a group comes from the nearest
\* group after it whose sum is not 10^8 - 1
add(a, b) ==
  Bind(<<groups_of(a), groups_of(b)>>, LAMBDA x :
   Bind(IF Len(x[1]) < Len(x[2]) THEN Len(x[2]) + 1 ELSE Len(x[1]) + 1, LAMBDA n :
    Bind(<<zero_digits(n - Len(x[1])) \o x[1], zero_digits(n - Len(x[2])) \o x[2]>>,
         LAMBDA y :
     Bind([i \in 1..n |-> y[1][i] + y[2][i]], LAMBDA s :
      digits_of_groups([i \in 1..n |->
        (s[i] + (IF \E j \in (i + 1)..n : s[j] # 99999999
                   THEN (IF s[FirstOf({j \in (i + 1)..n : s[j] # 99999999})]
                              >= 100000000
                           THEN 1 ELSE 0)
                   ELSE 0)) % 100000000])))))

\* a - b of a >= b, group by group: the borrow out of a group comes from
\* the nearest group after it that differs in a and b
minus(a, b) ==
  Bind(<<groups_of(a), groups_of(b)>>, LAMBDA g :
   Bind(<<g[1], zero_digits(Len(g[1]) - Len(g[2])) \o g[2]>>, LAMBDA x :
    Bind(Len(x[1]), LAMBDA n :
     Bind([i \in 1..n |-> x[1][i] - x[2][i]], LAMBDA d :
      Bind({j \in 1..n : d[j] # 0}, LAMBDA differ :
       digits_of_groups([i \in 1..n |->
         (d[i] + 100000000
          - (IF \E j \in differ : j > i
               THEN (IF d[FirstOf({j \in differ : j > i})] < 0 THEN 1 ELSE 0)
               ELSE 0)) % 100000000]))))))

\* x + y of two ints of Python
py_add(x, y) ==
  IF ~is_bigint(x) /\ ~is_bigint(y) /\ x + y < 1000000000 /\ x + y > -1000000000
    THEN x + y
  ELSE
  Bind(<<py_digits(x), py_digits(y), py_negative(x), py_negative(y)>>, LAMBDA v :
    IF v[3] = v[4] THEN py_int(v[3], add(v[1], v[2]))
    ELSE IF less(v[1], v[2]) THEN py_int(v[4], minus(v[2], v[1]))
    ELSE py_int(v[3], minus(v[1], v[2])))

\* x < y of two ints of Python
py_less(x, y) ==
  IF ~is_bigint(x) /\ ~is_bigint(y) THEN x < y
  ELSE IF py_negative(x) # py_negative(y) THEN py_negative(x)
  ELSE IF py_negative(x) THEN less(py_digits(y), py_digits(x))
  ELSE less(py_digits(x), py_digits(y))

\* x == y of two ints of Python
py_equal(x, y) ==
  IF is_bigint(x) /\ is_bigint(y) THEN x.v = y.v
  ELSE IF is_bigint(x) \/ is_bigint(y) THEN FALSE
  ELSE x = y

\* ------------------------------------------------------------------------
\* Text: str.strip, slices, int() and str()
\* ------------------------------------------------------------------------

\* the first position from p on whose character Is does not hold for, and
\* Len(s) + 1 when it holds for all; the next eight positions are looked at
\* first
first_not(s, p, Is(_)) ==
  Bind(p, LAMBDA from :
    Bind({i \in from..(IF from + 7 < Len(s) THEN from + 7 ELSE Len(s)) : ~Is(s[i])},
         LAMBDA near :
      IF near # {} THEN FirstOf(near)
      ELSE Bind({i \in (from + 8)..Len(s) : ~Is(s[i])}, LAMBDA far :
             IF far # {} THEN FirstOf(far)
             ELSE IF from > Len(s) THEN from ELSE Len(s) + 1)))

\* int() takes no more than 4300 digits (sys.int_info.default_max_str_digits
\* of Python 3.11) and raises ValueError for more
too_many_digits(t) == Len(t) > 4300

\* int(t) of a text of up to 4300 decimal digits
int_of_digits(t) ==
  py_int(FALSE, trim_zeros([i \in 1..Len(t) |-> decimal_value(t[i])]))

\* str(n) of an integer n >= 0
str_of_nat(n) == digits_text(nat_digits(n))

\* str(n) of an integer
str_of_int(n) == IF n < 0 THEN <<"-">> \o str_of_nat(0 - n) ELSE str_of_nat(n)

\* str.lower() of one character
lower_char(c) ==
  IF \E i \in 1..26 : UpperChars[i] = c
    THEN LowerChars[CHOOSE i \in 1..26 : UpperChars[i] = c]
    ELSE c

\* str.lower()
lower(t) == [i \in 1..Len(t) |-> lower_char(t[i])]

\* the lower-case letter that re.IGNORECASE takes c for: the long s is an s,
\* the dotted I and the dotless i are an i
fold_char(c) ==
  IF c = chr(383) THEN "s"
  ELSE IF c \in {chr(304), chr(305)} THEN "i"
  ELSE lower_char(c)

fold(t) == [i \in 1..Len(t) |-> fold_char(t[i])]

lstrip(t) == Bind(t, LAMBDA x : SubSeq(x, first_not(x, 1, IsSpace), Len(x)))

rstrip(t) ==
  Bind(t, LAMBDA x :
    IF Len(x) = 0 \/ ~IsSpace(x[Len(x)]) THEN x
    ELSE Bind({i \in 1..Len(x) : ~IsSpace(x[i])}, LAMBDA solid :
           IF solid = {} THEN <<>> ELSE SubSeq(x, 1, LastOf(solid))))

\* str.strip()
strip(t) == rstrip(lstrip(t))

\* t[:n]
first_chars(t, n) == SubSeq(t, 1, IF Len(t) < n THEN Len(t) ELSE n)

\* t[-n:]
last_chars(t, n) == SubSeq(t, IF Len(t) < n THEN 1 ELSE Len(t) - n + 1, Len(t))

\* str.startswith(lit, p - 1): lit occurs in s at position p
starts_with(s, p, lit) ==
  /\ p + Len(lit) - 1 <= Len(s)
  /\ SubSeq(s, p, p + Len(lit) - 1) = lit

\* lit occurs in s at position p when case is ignored
starts_with_fold(s, p, lit) ==
  /\ p + Len(lit) - 1 <= Len(s)
  /\ fold(SubSeq(s, p, p + Len(lit) - 1)) = lit

\* the first position from p on that holds no whitespace of json
skip_ws(s, p) == first_not(s, p, IsJsonSpace)

\* \s* at p: the first position from p on that holds no whitespace
skip_space(s, p) == first_not(s, p, IsSpace)

\* [0-9]* at p: the first position from p on that holds no ASCII digit
digits_end(s, p) == first_not(s, p, IsDigit)

\* \d* at p: the first position from p on that holds no decimal digit
decimals_end(s, p) == first_not(s, p, IsDecimal)

\* raw.replace("'", '"')
replace_quotes(raw) == [i \in 1..Len(raw) |-> IF raw[i] = "'" THEN "\"" ELSE raw[i]]

\* ------------------------------------------------------------------------
\* json.loads: the decoded value carries its JSON type
\* ------------------------------------------------------------------------

JNull == [t |-> "null", v |-> 0]
JBool(b) == [t |-> "bool", v |-> b]
JInt(n) == [t |-> "int", v |-> n]
\* a float is kept as the text that denotes it
JFloat(txt) == [t |-> "float", v |-> txt]
JStr(txt) == [t |-> "str", v |-> txt]
JList(items) == [t |-> "list", v |-> items]
\* a dict is the sequence of its (key, value) pairs in the order of the dict
JDict(pairs) == [t |-> "dict", v |-> pairs]

\* JSONDecodeError
JFail == [ok |-> FALSE, val |-> JNull, next |-> 0]

\* a value and the position after it
JOk(val, next) == [ok |-> TRUE, val |-> val, next |-> next]

\* the character an escape \c stands for; "" when \c is no escape
unescape(c) ==
  CASE c = "\"" -> "\""
    [] c = "\\" -> "\\"
    [] c = "/"  -> "/"
    [] c = "b"  -> chr(8)
    [] c = "f"  -> "\f"
    [] c = "n"  -> "\n"
    [] c = "r"  -> "\r"
    [] c = "t"  -> "\t"
    [] OTHER    -> ""

\* c is a hexadecimal digit
IsHex(c) == \E d \in 1..16 : c \in {HexChars[d], LowerHexChars[d]}

HexDigitValue(c) ==
  (CHOOSE d \in 1..16 : c \in {HexChars[d], LowerHexChars[d]}) - 1

\* the XXXX of an escape \uXXXX, read at p: its value, -1 when p does not
\* start four hexadecimal digits
hex4(s, p) ==
  IF p + 3 <= Len(s) /\ \A i \in p..(p + 3) : IsHex(s[i])
    THEN 4096 * HexDigitValue(s[p]) + 256 * HexDigitValue(s[p + 1])
         + 16 * HexDigitValue(s[p + 2]) + HexDigitValue(s[p + 3])
    ELSE 0 - 1

\* the number of backslashes right before position i, counted from p on
backslashes_before(s, p, i) ==
  IF i <= p \/ s[i - 1] # "\\" THEN 0
  ELSE Bind({j \in p..(i - 1) : s[j] # "\\"}, LAMBDA others :
         IF others = {} THEN i - p ELSE i - 1 - LastOf(others))

\* the character at i of a string that starts at p is escaped by no
\* backslash: an even number of backslashes stands before it
unescaped(s, p, i) == backslashes_before(s, p, i) % 2 = 0

\* the quote that closes the string whose inside starts at p; 0 when there
\* is none.  The next sixteen positions are looked at first
string_end(s, p) ==
  Bind({i \in p..(IF p + 15 < Len(s) THEN p + 15 ELSE Len(s)) :
          s[i] = "\"" /\ unescaped(s, p, i)}, LAMBDA near :
    IF near # {} THEN FirstOf(near)
    ELSE Bind({i \in (p + 16)..Len(s) : s[i] = "\"" /\ unescaped(s, p, i)},
              LAMBDA far : IF far # {} THEN FirstOf(far) ELSE 0))

\* the backslash at i starts \uXXXX with a value from first to last
surrogate_at(s, i, first, last) ==
  /\ starts_with(s, i, <<"\\", "u">>)
  /\ hex4(s, i + 2) >= first
  /\ hex4(s, i + 2) <= last

\* the backslash at i starts the \uXXXX of a low surrogate that is the
\* second half of a pair: the \uXXXX of a high surrogate ends right before it
low_half(s, p, i) ==
  /\ i - 6 >= p
  /\ surrogate_at(s, i, 56320, 57343)
  /\ unescaped(s, p, i - 6)
  /\ surrogate_at(s, i - 6, 55296, 56319)

\* the character of the escape that starts with the backslash at i; "" for
\* what is no escape of json.  A high surrogate \uXXXX followed by a low
\* surrogate \uXXXX is the one character of the pair
escape_char(s, i) ==
  IF i >= Len(s) THEN ""
  ELSE IF s[i + 1] = "u"
    THEN Bind(hex4(s, i + 2), LAMBDA uni :
           IF uni < 0 THEN ""
           ELSE IF uni >= 55296 /\ uni <= 56319
                   /\ surrogate_at(s, i + 6, 56320, 57343)
             THEN chr(65536 + (uni - 55296) * 1024 + (hex4(s, i + 8) - 56320))
           ELSE chr(uni))
  ELSE unescape(s[i + 1])

\* the character at i is a part of an escape that starts before i
in_escape(s, p, i) ==
  \E j \in (IF i - 5 < p THEN p ELSE i - 5)..(i - 1) :
    /\ s[j] = "\\"
    /\ unescaped(s, p, j)
    /\ j = i - 1 \/ s[j + 1] = "u"

\* what the character at i of a string that starts at p adds to the decoded
\* string: itself, the character of the escape it starts, or nothing ("")
string_piece(s, p, i) ==
  IF s[i] = "\\"
    THEN (IF unescaped(s, p, i) /\ ~low_half(s, p, i)
            THEN escape_char(s, i) ELSE "")
    ELSE (IF in_escape(s, p, i) THEN "" ELSE s[i])

\* the backslash at i starts something that is no escape of json
bad_escape(s, p, i) ==
  s[i] = "\\" /\ unescaped(s, p, i) /\ escape_char(s, i) = ""

is_piece(c) == c # ""

\* the string whose inside starts at p: control characters are not allowed
\* in it, and every backslash starts an escape
json_string_from(s, p) ==
  Bind(string_end(s, p), LAMBDA e :
    IF e = 0 THEN JFail
    ELSE IF \E i \in p..(e - 1) : s[i] \in ControlChars THEN JFail
    ELSE IF \A i \in p..(e - 1) : s[i] # "\\"
      THEN JOk(JStr(SubSeq(s, p, e - 1)), e + 1)
    ELSE IF \E i \in p..(e - 1) : bad_escape(s, p, i) THEN JFail
    ELSE JOk(JStr(SelectSeq([k \in 1..(e - p) |-> string_piece(s, p, p + k - 1)],
                            is_piece)), e + 1))

\* the int of the digits s[q..e-1], negative when neg
json_int(s, q, e, neg) ==
  Bind(trim_zeros([i \in 1..(e - q) |-> DigitValue(s[q + i - 1])]), LAMBDA a :
    IF Len(a) <= 9 THEN JInt(IF neg THEN 0 - nat_value(a) ELSE nat_value(a))
    ELSE py_int(neg, a))

\* -?(0|[1-9]\d*)(\.\d+)?([eE][-+]?\d+)? at p: an int when it has neither a
\* fraction nor an exponent, and int() raises ValueError for an int of more
\* than 4300 digits
json_number(s, p) ==
  Bind(IF s[p] = "-" THEN p + 1 ELSE p, LAMBDA q :
   Bind(IF q <= Len(s) /\ s[q] = "0" THEN q + 1 ELSE digits_end(s, q),
        LAMBDA int_end :
    Bind(IF int_end < Len(s) /\ s[int_end] = "." /\ IsDigit(s[int_end + 1])
           THEN digits_end(s, int_end + 1) ELSE int_end, LAMBDA frac_end :
     Bind(IF frac_end < Len(s) /\ s[frac_end] \in {"e", "E"}
             /\ s[frac_end + 1] \in {"+", "-"}
            THEN frac_end + 2 ELSE frac_end + 1, LAMBDA exp_digits :
      Bind(IF frac_end <= Len(s) /\ s[frac_end] \in {"e", "E"}
              /\ exp_digits <= Len(s) /\ IsDigit(s[exp_digits])
             THEN digits_end(s, exp_digits) ELSE frac_end, LAMBDA exp_end :
        IF int_end = q THEN JFail
        ELSE IF exp_end = int_end
          THEN (IF int_end - q > 4300 THEN JFail
                ELSE JOk(json_int(s, q, int_end, q > p), int_end))
        ELSE JOk(JFloat(SubSeq(s, p, exp_end - 1)), exp_end))))))

\* the marks of a text: its brackets and commas that stand in no string (an
\* even number of quotes that no backslash escapes stands before them), and
\* for each of them the number of arrays and objects open after it
json_marks(s) ==
  Bind({i \in 1..Len(s) : s[i] = "\"" /\ unescaped(s, 1, i)}, LAMBDA quotes :
   Bind({i \in 1..Len(s) :
           /\ s[i] \in {"[", "]", "{", "}", ","}
           /\ Cardinality({k \in quotes : k < i}) % 2 = 0}, LAMBDA marks :
    Bind({i \in marks : s[i] \in {"[", "{"}}, LAMBDA opens :
     Bind({i \in marks : s[i] \in {"]", "}"}}, LAMBDA closes :
       [i \in marks |->
          Cardinality({k \in opens : k <= i})
          - Cardinality({k \in closes : k <= i})]))))

\* the decoder goes one call deeper for each array or object inside another,
\* and Python 3.11 raises RecursionError when more than 1000 calls are open.
\* The script has "frames" calls open where it calls json.loads (the module,
\* main, the step and, for a review reply, parse_review_response), the
\* decoder four of its own (json.loads, decode, raw_decode, scan_once): the
\* script run by python decodes a nesting of 992 in parse_review_response
\* and of 993 in step 4, and no deeper one
too_deep(depth, frames) == depth + frames > 996

\* the calls open where parse_review_response calls json.loads, and where
\* step4_get_modules does
ParseFrames ==
  Len(<<"<module>", "main", "step2_review_overall", "parse_review_response">>)

Step4Frames == Len(<<"<module>", "main", "step4_get_modules">>)

\* null, true, false, a number, or NaN, Infinity and -Infinity at p
json_literal(s, p) ==
  CASE starts_with(s, p, <<"n", "u", "l", "l">>) -> JOk(JNull, p + 4)
    [] starts_with(s, p, <<"t", "r", "u", "e">>) -> JOk(JBool(TRUE), p + 4)
    [] starts_with(s, p, <<"f", "a", "l", "s", "e">>) -> JOk(JBool(FALSE), p + 5)
    [] IsDigit(s[p]) \/ (s[p] = "-" /\ p < Len(s) /\ IsDigit(s[p + 1])) ->
         json_number(s, p)
    [] starts_with(s, p, <<"N", "a", "N">>) -> JOk(JFloat(<<"n", "a", "n">>), p + 3)
    [] starts_with(s, p, <<"I", "n", "f", "i", "n", "i", "t", "y">>) ->
         JOk(JFloat(<<"i", "n", "f">>), p + 8)
    [] starts_with(s, p, <<"-", "I", "n", "f", "i", "n", "i", "t", "y">>) ->
         JOk(JFloat(<<"-", "i", "n", "f">>), p + 9)
    [] OTHER -> JFail

\* the bracket that closes the array or object opened at p; 0 when none does
closing(lv, p) ==
  Bind({i \in DOMAIN lv : i > p /\ lv[i] = lv[p] - 1}, LAMBDA after :
    IF after = {} THEN 0 ELSE FirstOf(after))

is_mark(lv, i, p) == i \in DOMAIN lv /\ lv[i] = lv[p]

\* where the items of the array or object opened at p and closed at close
\* end: at its commas and at close
item_ends(s, lv, p, close) ==
  SelectSeq([i \in 1..(close - p) |-> p + i],
            LAMBDA i : i = close \/ (s[i] = "," /\ is_mark(lv, i, p)))

\* where item k of the array or object opened at p starts
item_start(ends, p, k) == IF k = 1 THEN p + 1 ELSE ends[k - 1] + 1

\* where the value of the member that starts at from starts: after its key
\* and the colon that follows it; 0 when the key or the colon is not there
member_value(s, from) ==
  Bind(skip_ws(s, from), LAMBDA q :
    IF q > Len(s) \/ s[q] # "\"" THEN 0
    ELSE Bind(json_string_from(s, q + 1), LAMBDA key :
           IF ~key.ok THEN 0
           ELSE Bind(skip_ws(s, key.next), LAMBDA colon :
                  IF colon > Len(s) \/ s[colon] # ":" THEN 0
                  ELSE skip_ws(s, colon + 1))))

\* the value that starts at p reads to r, and whitespace follows it up to end
reads_to(s, r, end) == r.ok /\ skip_ws(s, r.next) = end

\* the text from from to end is one value, with nothing but whitespace round
\* it: a string, a number or a literal that ends at end, or an array or an
\* object whose closing bracket ends at end
item_valid(s, lv, q, end) ==
  CASE q >= end -> FALSE
    [] q < end /\ s[q] = "\"" -> reads_to(s, json_string_from(s, q + 1), end)
    [] q < end /\ s[q] \in {"[", "{"} ->
         /\ q \in DOMAIN lv
         /\ Bind(closing(lv, q), LAMBDA close :
              close # 0 /\ skip_ws(s, close + 1) = end)
    [] OTHER -> reads_to(s, json_literal(s, q), end)

\* the items of the array opened at p are values, one between two commas,
\* and the members of the object opened at p are a key, a colon and a value
items_valid(s, lv, p, ends) ==
  \A k \in 1..Len(ends) :
    IF s[p] = "["
      THEN item_valid(s, lv, skip_ws(s, item_start(ends, p, k)), ends[k])
      ELSE Bind(member_value(s, item_start(ends, p, k)), LAMBDA q :
             q > 0 /\ item_valid(s, lv, q, ends[k]))

\* the array or object opened at p is closed by a bracket of its kind, not
\* too deep, and empty or of valid items
container_valid(s, lv, p, frames) ==
  Bind(closing(lv, p), LAMBDA close :
    /\ close # 0
    /\ s[close] = (IF s[p] = "[" THEN "]" ELSE "}")
    /\ ~too_deep(lv[p], frames)
    /\ \/ skip_ws(s, p + 1) = close
       \/ items_valid(s, lv, p, item_ends(s, lv, p, close)))

\* the decoder reads the text: it is one value, and every array and object
\* in it is valid
json_valid(s, lv, frames) ==
  /\ item_valid(s, lv, skip_ws(s, 1), Len(s) + 1)
  /\ \A p \in DOMAIN lv : s[p] \in {"[", "{"} => container_valid(s, lv, p, frames)

\* the members of the object opened at p, in a text that is valid: the key
\* of each and where its value starts
members_of(s, p, ends) ==
  [m \in 1..Len(ends) |->
     Bind(json_string_from(s, skip_ws(s, item_start(ends, p, m)) + 1),
          LAMBDA key : [k |-> key.val.v,
                        at |-> skip_ws(s, skip_ws(s, key.next) + 1)])]

\* the members that are the first with their key
first_keys(ms) ==
  SelectSeq([i \in 1..Len(ms) |-> i],
            LAMBDA i : \A h \in 1..(i - 1) : ms[h].k # ms[i].k)

\* the last member with the key of member i
last_with(ms, i) == LastOf({h \in 1..Len(ms) : ms[h].k = ms[i].k})

\* what the array or object opened at p holds between its brackets; nothing
\* when only whitespace stands there
container_ends(s, lv, p) ==
  Bind(closing(lv, p), LAMBDA close :
    IF skip_ws(s, p + 1) = close THEN <<>> ELSE item_ends(s, lv, p, close))

RECURSIVE json_value(_, _, _)

\* the array opened at p, in a text that is valid
json_array(s, lv, p, ends) ==
  [t |-> "list", v |-> [k \in 1..Len(ends) |->
                          json_value(s, lv, skip_ws(s, item_start(ends, p, k)))]]

\* the object of the members ms, in a text that is valid. d[key] = val for
\* one member after the other: a key stands where its first member stands,
\* with the value of its last member
json_object(s, lv, ms, firsts) ==
  [t |-> "dict",
   v |-> [j \in 1..Len(firsts) |->
            [k |-> ms[firsts[j]].k,
             v |-> json_value(s, lv, ms[last_with(ms, firsts[j])].at)]]]

json_members(s, lv, ms) == json_object(s, lv, ms, first_keys(ms))

\* the value that starts at q, in a text that is valid
json_value(s, lv, q) ==
  CASE s[q] = "\"" -> json_string_from(s, q + 1).val
    [] s[q] = "[" -> json_array(s, lv, q, container_ends(s, lv, q))
    [] s[q] = "{" ->
         json_members(s, lv, members_of(s, q, container_ends(s, lv, q)))
    [] OTHER -> json_literal(s, q).val

\* json.loads(raw), called with "frames" calls open: one value, whitespace
\* round it, nothing after it. RecursionError for a nesting that is too
\* deep, like JSONDecodeError, is an Exception
json_loads(raw, frames) ==
  Bind(json_marks(raw), LAMBDA lv :
    IF json_valid(raw, lv, frames)
      THEN [ok |-> TRUE, val |-> json_value(raw, lv, skip_ws(raw, 1))]
      ELSE [ok |-> FALSE, val |-> JNull])

\* data.get(key, default)
dict_get(pairs, key, default) ==
  IF \E i \in 1..Len(pairs) : pairs[i].k = key
    THEN pairs[CHOOSE i \in 1..Len(pairs) : pairs[i].k = key].v
    ELSE default

\* ------------------------------------------------------------------------
\* parse_review_response
\* ------------------------------------------------------------------------

\* the values True and False of Python; None is defined above
PyTrue == "True"
PyFalse == "False"

PyBool(b) == IF b THEN PyTrue ELSE PyFalse

\* the Verdict dictionaries: satisfied, issues, suggestions, score
Verdicts ==
  [satisfied : {PyTrue, PyFalse, None}, issues : IssueLists,
   suggestions : SuggestionTexts, score : {0, 85}]

KeySatisfied == <<"s", "a", "t", "i", "s", "f", "i", "e", "d">>
KeyIssues == <<"i", "s", "s", "u", "e", "s">>
KeySuggestions == <<"s", "u", "g", "g", "e", "s", "t", "i", "o", "n", "s">>
KeyScore == <<"s", "c", "o", "r", "e">>

\* response.strip()[:800]
SuggestionsLimit == 800

\* the match of \{[\s\S]*\}: from the first "{" to the last "}"; the empty
\* text when there is no match
object_match(response) ==
  LET opens == {i \in 1..Len(response) : response[i] = "{"}
      closes == {i \in 1..Len(response) : response[i] = "}"}
  IN IF opens # {} /\ closes # {} /\ FirstOf(opens) < LastOf(closes)
       THEN SubSeq(response, FirstOf(opens), LastOf(closes))
       ELSE EmptyText

\* the text of a float is "nan", "inf" or "-inf"
float_special(txt) == txt[Len(txt)] \in {"n", "f"}

\* the exponent written with the digits t, cut down to a million: a float
\* with such an exponent is 0.0 or inf
exponent_value(t) ==
  Bind(trim_zeros([i \in 1..Len(t) |-> DigitValue(t[i])]), LAMBDA a :
    IF Len(a) > 6 THEN 1000000 ELSE nat_value(a))

\* a without the zeros at its end
trim_end(a) ==
  Bind(a, LAMBDA x :
    IF Len(x) = 0 \/ x[Len(x)] # 0 THEN x
    ELSE Bind({i \in 1..Len(x) : x[i] # 0}, LAMBDA nz :
           IF nz = {} THEN <<>> ELSE SubSeq(x, 1, LastOf(nz))))

\* the text of a float taken apart: the sign, the digits without the zeros
\* at either end, and decpt, where the value is 0.digits * 10^decpt
float_parts(txt) ==
  Bind(IF txt[1] = "-" THEN Tail(txt) ELSE txt, LAMBDA body :
   Bind({i \in 1..Len(body) : body[i] \in {"e", "E"}}, LAMBDA es :
    Bind(IF es = {} THEN body ELSE SubSeq(body, 1, FirstOf(es) - 1), LAMBDA mant :
     Bind(IF es = {} THEN <<>> ELSE SubSeq(body, FirstOf(es) + 1, Len(body)),
          LAMBDA exptxt :
      Bind(IF Len(exptxt) > 0 /\ exptxt[1] = "-"
             THEN 0 - exponent_value(Tail(exptxt))
             ELSE IF Len(exptxt) > 0 /\ exptxt[1] = "+"
               THEN exponent_value(Tail(exptxt))
             ELSE exponent_value(exptxt), LAMBDA exp :
       Bind({i \in 1..Len(mant) : mant[i] = "."}, LAMBDA dots :
        Bind(IF dots = {} THEN Len(mant) ELSE FirstOf(dots) - 1, LAMBDA int_len :
         Bind(SelectSeq(mant, IsDigit), LAMBDA all :
          Bind(trim_zeros([i \in 1..Len(all) |-> DigitValue(all[i])]), LAMBDA lead :
            [neg |-> txt[1] = "-",
             digits |-> trim_end(lead),
             decpt |-> IF lead = <<>> THEN 0
                       ELSE int_len + exp - (Len(all) - Len(lead))])))))))))

\* 2^52 and 2^53: a float is q * 2^(-s) with q < 2^53, and 2^52 <= q unless
\* s is 1074
Pow52 == <<4, 5, 0, 3, 5, 9, 9, 6, 2, 7, 3, 7, 0, 4, 9, 6>>

Pow53 == <<9, 0, 0, 7, 1, 9, 9, 2, 5, 4, 7, 4, 0, 9, 9, 2>>

FloatZero == [kind |-> "zero", q |-> <<>>, s |-> 0]

FloatInf == [kind |-> "inf", q |-> <<>>, s |-> 0]

FloatNan == [kind |-> "nan", q |-> <<>>, s |-> 0]

\* a * 10^e * 2^s: its whole part, and how what is left compares with one
\* half (-1 below, 0 equal, 1 above).  For s < 0 the factor 2^s is 5^(-s)
\* over 10^(-s)
scaled(a, e, s) ==
  Bind(IF s >= 0 THEN times_pow2(a, s) ELSE times_pow5(a, 0 - s), LAMBDA n :
   Bind(IF s >= 0 THEN e ELSE e + s, LAMBDA sh :
     IF sh >= 0 THEN [whole |-> n \o zero_digits(sh), rest |-> 0 - 1]
     ELSE IF 0 - sh > Len(n) THEN [whole |-> <<>>, rest |-> 0 - 1]
     ELSE Bind(Len(n) + sh, LAMBDA w :
            [whole |-> SubSeq(n, 1, w),
             rest |-> IF n[w + 1] > 5 THEN 1
                      ELSE IF n[w + 1] < 5 THEN 0 - 1
                      ELSE IF \E i \in (w + 2)..Len(n) : n[i] # 0 THEN 1
                      ELSE 0])))

\* the float nearest to a * 10^e, the even one of two that are as near:
\* s is looked for from an estimate of the logarithm that is too low by up
\* to 6, and is 1074 at most; a float above 2^53 * 2^971 is inf
float_of(a, e) ==
  Bind(Len(a) + e, LAMBDA decpt :
    IF decpt > 309 THEN FloatInf
    ELSE IF decpt < 0 - 323 THEN FloatZero
    ELSE
     Bind(53 - ((decpt - 1) * 33219) \div 10000, LAMBDA s0 :
      Bind(IF s0 > 1074 THEN 1074 ELSE s0, LAMBDA s1 :
       Bind(scaled(a, e, s1), LAMBDA first :
        Bind(Cardinality({k \in 1..6 : ~less(first.whole, times_pow2(Pow52, k))}),
             LAMBDA j :
         Bind(IF j = 0 THEN first ELSE scaled(a, e, s1 - j), LAMBDA w :
          Bind(IF w.rest > 0
                  \/ (w.rest = 0 /\ Len(w.whole) > 0
                      /\ w.whole[Len(w.whole)] % 2 = 1)
                 THEN succ(w.whole) ELSE w.whole, LAMBDA q :
            IF q = <<>> THEN FloatZero
            ELSE IF q = Pow53
              THEN (IF s1 - j - 1 < 0 - 971 THEN FloatInf
                    ELSE [kind |-> "num", q |-> Pow52, s |-> s1 - j - 1])
            ELSE IF s1 - j < 0 - 971 THEN FloatInf
            ELSE [kind |-> "num", q |-> q, s |-> s1 - j])))))))

\* float(txt): of more than 800 digits the first 800 and a digit that
\* stands for the others decide, since the middle of two floats has fewer
float_value(txt) ==
  IF txt[Len(txt)] = "n" THEN FloatNan
  ELSE IF txt[Len(txt)] = "f" THEN FloatInf
  ELSE Bind(float_parts(txt), LAMBDA f :
         IF f.digits = <<>> THEN FloatZero
         ELSE IF Len(f.digits) > 800
           THEN float_of(SubSeq(f.digits, 1, 800) \o <<1>>, f.decpt - 801)
         ELSE float_of(f.digits, f.decpt - Len(f.digits)))

\* float(txt) is 0.0: no digit but 0, or a value too small for a float
float_is_zero(txt) == float_value(txt).kind = "zero"

\* float(txt) is inf or -inf: written so, or a value too large for a float
float_is_inf(txt) == float_value(txt).kind = "inf"

\* x * 10^t * 2^(-t): x * 5^t for t >= 0, x * 2^(-t) for t < 0
scale10(x, t) == IF t >= 0 THEN times_pow5(x, t) ELSE times_pow2(x, 0 - t)

\* c is a number that float() reads as the float in the middle of v:
\* v = <<the float, the middle to the next float, the middle to
\* the float before>>, and a middle is read as the float of the even q
reads_as(c, v, even) ==
  Bind(c, LAMBDA x :
    \/ less(v[3], x) /\ less(x, v[2])
    \/ even /\ (x = v[3] \/ x = v[2]))

\* the first n digits of a with zeros after them, and the number one above
\* that in the digit n
round_down(a, n) == SubSeq(a, 1, n) \o zero_digits(Len(a) - n)

round_up(a, n) == succ(SubSeq(a, 1, n)) \o zero_digits(Len(a) - n)

\* a is nearer to round_up(a, n) than to round_down(a, n); of two that are
\* as near the one with the even digit n is taken
nearer_up(a, n) ==
  /\ n < Len(a)
  /\ \/ a[n + 1] > 5
     \/ /\ a[n + 1] = 5
        /\ \/ \E i \in (n + 2)..Len(a) : a[i] # 0
           \/ a[n] % 2 = 1

\* repr(float): the digits of the shortest number that float() reads as the
\* float q * 2^(-s), the nearest to the float of those, [digits, decpt] with
\* the value 0.digits * 10^decpt.  The float and the middles to its
\* neighbours are compared as multiples of 2^(-s-2); the float before 2^52 *
\* 2^(-s) is half as far away as the float after it
float_digits(q, s) ==
  Bind(double(double(q)), LAMBDA q4 :
   Bind(<<scale10(q4, s + 2),
          scale10(succ(succ(q4)), s + 2),
          scale10(IF q = Pow52 /\ s < 1074 THEN pred(q4) ELSE pred(pred(q4)),
                  s + 2)>>, LAMBDA v :
    Bind(FirstOf({n \in 1..(IF Len(v[1]) < 17 THEN Len(v[1]) ELSE 17) :
                    \/ reads_as(round_down(v[1], n), v, q[Len(q)] % 2 = 0)
                    \/ reads_as(round_up(v[1], n), v, q[Len(q)] % 2 = 0)}),
         LAMBDA n :
     Bind(IF ~reads_as(round_up(v[1], n), v, q[Len(q)] % 2 = 0)
            THEN round_down(v[1], n)
          ELSE IF ~reads_as(round_down(v[1], n), v, q[Len(q)] % 2 = 0)
            THEN round_up(v[1], n)
          ELSE IF nearer_up(v[1], n) THEN round_up(v[1], n)
          ELSE round_down(v[1], n), LAMBDA c :
       [digits |-> digits_text(trim_end(c)),
        decpt |-> Len(c) - (IF s + 2 >= 0 THEN s + 2 ELSE 0)]))))

\* n times the character "0"
zeros(n) == [i \in 1..n |-> "0"]

\* the digits of a float as repr writes them: with a point for -4 < decpt <=
\* 16, with an exponent of two digits or more otherwise
float_format(f) ==
  IF f.decpt \in (0 - 3)..0
    THEN <<"0", ".">> \o zeros(0 - f.decpt) \o f.digits
  ELSE IF f.decpt \in 1..16 /\ f.decpt >= Len(f.digits)
    THEN f.digits \o zeros(f.decpt - Len(f.digits)) \o <<".", "0">>
  ELSE IF f.decpt \in 1..16
    THEN SubSeq(f.digits, 1, f.decpt) \o <<".">>
         \o SubSeq(f.digits, f.decpt + 1, Len(f.digits))
  ELSE <<f.digits[1]>>
       \o (IF Len(f.digits) > 1 THEN <<".">> \o Tail(f.digits) ELSE EmptyText)
       \o <<"e", IF f.decpt < 1 THEN "-" ELSE "+">>
       \o (IF f.decpt \in (0 - 8)..10 THEN <<"0">> ELSE EmptyText)
       \o str_of_nat(IF f.decpt < 1 THEN 1 - f.decpt ELSE f.decpt - 1)

\* repr(float(txt))
float_repr(txt) ==
  Bind(float_value(txt), LAMBDA x :
    IF x.kind = "nan" THEN <<"n", "a", "n">>
    ELSE (IF txt[1] = "-" THEN <<"-">> ELSE EmptyText)
         \o (IF x.kind = "inf" THEN <<"i", "n", "f">>
             ELSE IF x.kind = "zero" THEN <<"0", ".", "0">>
             ELSE Bind(float_digits(x.q, x.s), LAMBDA f : float_format(f))))

\* bool(x) of a decoded value
bool_of(val) ==
  CASE val.t = "bool" -> val.v
    [] val.t = "int" -> val.v # 0
    [] val.t = "bigint" -> TRUE
    [] val.t = "float" -> ~float_is_zero(val.v)
    [] val.t \in {"str", "list", "dict"} -> Len(val.v) > 0
    [] OTHER -> FALSE

\* the Python value of a decoded value: a str is its text, a list the
\* sequence of its items, an int the number, a bool and None their tokens.
\* A float, a dict and an int of ten digits or more stay as decoded, and so
\* does an empty list inside a list, which tells it from the empty str
RECURSIVE py_value(_)
py_value(val) ==
  CASE val.t = "str" -> val.v
    [] val.t = "list" ->
         [i \in 1..Len(val.v) |->
            IF val.v[i].t = "list" /\ Len(val.v[i].v) = 0
              THEN val.v[i] ELSE py_value(val.v[i])]
    [] val.t = "int" -> val.v
    [] val.t = "bool" -> PyBool(val.v)
    [] val.t = "null" -> None
    [] OTHER -> val

\* type(x).__name__ of a decoded value
py_type(val) ==
  CASE val.t = "null" -> "NoneType"
    [] val.t = "bigint" -> "int"
    [] OTHER -> val.t

\* x is one character, as the iteration of a str gives it
is_char(x) ==
  /\ SubSeq(ToString(x), 1, 1) = "\""
  /\ x \notin {None, PyTrue, PyFalse}

\* type(x).__name__ of a Python value; "char" is the str of one character.
\* The empty sequence is the empty str or the empty list, which differ in
\* nothing but their repr
type_of(x) ==
  Bind(SubSeq(ToString(x), 1, 1), LAMBDA c :
    IF c = "[" THEN py_type(x)
    ELSE IF c = "<" THEN (IF Len(x) = 0 \/ is_char(x[1]) THEN "str" ELSE "list")
    ELSE IF c = "\"" THEN (IF x = None THEN "NoneType"
                           ELSE IF x \in {PyTrue, PyFalse} THEN "bool"
                           ELSE "char")
    ELSE "int")

\* the text of a Python str, held as a text, as one character, or as decoded
str_text(x) ==
  Bind(type_of(x), LAMBDA t :
    IF t = "char" THEN <<x>>
    ELSE IF SubSeq(ToString(x), 1, 1) = "[" THEN x.v ELSE x)

\* the items of a Python list as Python values
list_items(x) ==
  IF SubSeq(ToString(x), 1, 1) = "[" THEN py_value(x) ELSE x

\* the keys of a dict, in its order
dict_keys(x) == [i \in 1..Len(x.v) |-> x.v[i].k]

\* bool(x)
py_truthy(x) ==
  IF SubSeq(ToString(x), 1, 1) = "<" THEN Len(x) > 0
  ELSE
  Bind(type_of(x), LAMBDA t :
    CASE t = "NoneType" -> FALSE
      [] t = "bool" -> IF SubSeq(ToString(x), 1, 1) = "[" THEN x.v ELSE x = PyTrue
      [] t = "int" -> IF is_bigint(x) THEN TRUE
                      ELSE IF is_record(x) THEN x.v # 0 ELSE x # 0
      [] t = "float" -> ~float_is_zero(x.v)
      [] t = "char" -> Len(x) > 0
      [] t = "dict" -> Len(x.v) > 0
      [] OTHER -> Len(str_text(x)) > 0)

\* len(x) raises TypeError
py_len_raises(x) == type_of(x) \in {"NoneType", "bool", "int", "float"}

\* len(x) of a value that has a length
py_len(x) ==
  Bind(type_of(x), LAMBDA t :
    IF t = "dict" THEN Len(x.v)
    ELSE IF t = "list" THEN Len(list_items(x))
    ELSE Len(str_text(x)))

\* iter(x) raises TypeError
py_iter_raises(x) == type_of(x) \in {"NoneType", "bool", "int", "float"}

\* what "for item in x" goes through: the items of a list, the keys of a
\* dict, the characters of a str
py_iter(x) ==
  Bind(type_of(x), LAMBDA t :
    IF t = "dict" THEN dict_keys(x)
    ELSE IF t = "list" THEN list_items(x)
    ELSE str_text(x))

\* one character of repr(str) between the quotes q
repr_char(c, q) ==
  Bind(ord(c), LAMBDA n :
    CASE c = "\\" -> <<"\\", "\\">>
      [] c = q    -> <<"\\", q>>
      [] c = "\t" -> <<"\\", "t">>
      [] c = "\n" -> <<"\\", "n">>
      [] c = "\r" -> <<"\\", "r">>
      [] n < 0 \/ isprintable_code(n) -> <<c>>
      [] n < 256 ->
           <<"\\", "x">>
           \o [i \in 1..2 |-> SubSeq(zero_padded(hex_digits(n, LowerHexChars), 2), i, i)]
      [] n < 65536 ->
           <<"\\", "u">>
           \o [i \in 1..4 |-> SubSeq(zero_padded(hex_digits(n, LowerHexChars), 4), i, i)]
      [] OTHER ->
           <<"\\", "U">>
           \o [i \in 1..8 |-> SubSeq(zero_padded(hex_digits(n, LowerHexChars), 8), i, i)])

\* repr(t) of a str: between double quotes when it has a single quote and no
\* double quote, between single quotes otherwise
repr_str(t) ==
  Bind(IF (\E i \in 1..Len(t) : t[i] = "'") /\ ~(\E i \in 1..Len(t) : t[i] = "\"")
         THEN "\"" ELSE "'", LAMBDA q :
    <<q>> \o Join(EmptyText, [i \in 1..Len(t) |-> repr_char(t[i], q)]) \o <<q>>)

\* repr(x) of a decoded value
RECURSIVE json_repr(_)
json_repr(val) ==
  CASE val.t = "null" -> <<"N", "o", "n", "e">>
    [] val.t = "bool" -> IF val.v THEN <<"T", "r", "u", "e">>
                                  ELSE <<"F", "a", "l", "s", "e">>
    [] val.t = "int" -> str_of_int(val.v)
    [] val.t = "bigint" -> val.v
    [] val.t = "float" -> float_repr(val.v)
    [] val.t = "str" -> repr_str(val.v)
    [] val.t = "list" ->
         <<"[">>
         \o Join(<<",", " ">>, [i \in 1..Len(val.v) |-> json_repr(val.v[i])])
         \o <<"]">>
    [] OTHER ->
         <<"{">>
         \o Join(<<",", " ">>,
                 [i \in 1..Len(val.v) |->
                    repr_str(val.v[i].k) \o <<":", " ">> \o json_repr(val.v[i].v)])
         \o <<"}">>

\* repr(x) of a Python value
RECURSIVE py_repr(_)
py_repr(x) ==
  Bind(type_of(x), LAMBDA t :
    IF SubSeq(ToString(x), 1, 1) = "[" THEN json_repr(x)
    ELSE CASE t = "NoneType" -> <<"N", "o", "n", "e">>
           [] t = "bool" -> IF x = PyTrue THEN <<"T", "r", "u", "e">>
                                          ELSE <<"F", "a", "l", "s", "e">>
           [] t = "int" -> str_of_int(x)
           [] t = "list" ->
                <<"[">>
                \o Join(<<",", " ">>, [i \in 1..Len(x) |-> py_repr(x[i])])
                \o <<"]">>
           [] OTHER -> repr_str(str_text(x)))

\* str(x), which the f-strings put in the place of {x}
py_str(x) ==
  Bind(type_of(x), LAMBDA t :
    IF t \in {"str", "char"} THEN str_text(x) ELSE py_repr(x))

\* the score cut down to 100
score_of_clamped(score_raw) ==
  CASE score_raw.t = "int" ->
         IF score_raw.v < 0 THEN 0
         ELSE IF score_raw.v > 100 THEN 100 ELSE score_raw.v
    [] OTHER -> 0

\* str.isdigit()
isdigit(d) == Len(d) > 0 /\ \A i \in 1..Len(d) : isdigit_char(d[i])

\* line 136 raises ValueError: int() of digits that are no decimal digits,
\* or of more digits than int() takes
score_raises(score_raw) ==
  /\ score_raw.t = "str"
  /\ Bind(strip(score_raw.v), LAMBDA d :
       /\ isdigit(d)
       /\ \/ too_many_digits(d)
          \/ \E i \in 1..Len(d) : ~IsDecimal(d[i]))

\* int(str(score_raw).strip()) if str(score_raw).strip().isdigit() else 0
score_of(score_raw) ==
  CASE score_raw.t = "int" -> IF score_raw.v >= 0 THEN score_raw.v ELSE 0
    [] score_raw.t = "bigint" -> IF score_raw.v[1] = "-" THEN 0 ELSE score_raw
    [] score_raw.t = "str" ->
         Bind(strip(score_raw.v), LAMBDA d :
           IF isdigit(d) THEN int_of_digits(d) ELSE 0)
    [] OTHER -> 0

\* the dictionary returned for a decoded object
verdict_of_object(data) ==
  LET issues == dict_get(data, KeyIssues, JList(<<>>))
  IN [satisfied |-> PyBool(bool_of(dict_get(data, KeySatisfied, JBool(FALSE)))),
      issues |-> IF issues.t = "str"
                   THEN (IF Len(strip(issues.v)) > 0 THEN <<issues.v>> ELSE <<>>)
                   ELSE py_value(issues),
      suggestions |-> py_value(dict_get(data, KeySuggestions, JStr(EmptyText))),
      score |-> score_of(dict_get(data, KeyScore, JInt(0)))]

\* "score"\s*:\s*"?(\d+)"? tried at p: where its group 1 starts, 0 when the
\* pattern does not match there
score_group_at(s, p) ==
  LET colon == skip_space(s, p + Len(KeyScore) + 2)
      quote == skip_space(s, colon + 1)
      first == IF quote <= Len(s) /\ s[quote] = "\"" THEN quote + 1 ELSE quote
  IN IF /\ s[p] = "\""
        /\ starts_with(s, p, <<"\"">> \o KeyScore \o <<"\"">>)
        /\ colon <= Len(s) /\ s[colon] = ":"
        /\ first <= Len(s) /\ IsDecimal(s[first])
       THEN first ELSE 0

\* group 1 of the pattern tried at p; the empty text when it does not match
score_match_at(s, p) ==
  Bind(score_group_at(s, p), LAMBDA first :
    IF first = 0 THEN EmptyText
    ELSE SubSeq(s, first, decimals_end(s, first) - 1))

\* group 1 of "satisfied"\s*:\s*(true|false), re.IGNORECASE, tried at p
satisfied_match_at(s, p) ==
  LET colon == skip_space(s, p + Len(KeySatisfied) + 2)
      word == skip_space(s, colon + 1)
  IN IF /\ s[p] = "\""
        /\ starts_with_fold(s, p, <<"\"">> \o KeySatisfied \o <<"\"">>)
        /\ colon <= Len(s) /\ s[colon] = ":"
       THEN IF starts_with_fold(s, word, <<"t", "r", "u", "e">>)
              THEN SubSeq(s, word, word + 3)
            ELSE IF starts_with_fold(s, word, <<"f", "a", "l", "s", "e">>)
              THEN SubSeq(s, word, word + 4)
            ELSE EmptyText
       ELSE EmptyText

\* re.search: group 1 of the leftmost match, the empty text for None
score_search(s) ==
  LET hits == {p \in 1..Len(s) : s[p] = "\"" /\ score_group_at(s, p) > 0}
  IN IF hits = {} THEN EmptyText ELSE score_match_at(s, FirstOf(hits))

satisfied_search(s) ==
  LET hits == {p \in 1..Len(s) : s[p] = "\"" /\ Len(satisfied_match_at(s, p)) > 0}
  IN IF hits = {} THEN EmptyText ELSE satisfied_match_at(s, FirstOf(hits))

\* ValueError, raised and not caught
ValueError == "<ValueError>"

\* line 152 raises ValueError: int() of more digits than it takes
verdict_of_text_raises(response) == too_many_digits(score_search(response))

\* the dictionary returned when no object was decoded
verdict_of_text(response) ==
  LET score_match == score_search(response)
      satisfied_match == satisfied_search(response)
  IN [satisfied |-> IF satisfied_match = EmptyText THEN None
                    ELSE PyBool(lower(satisfied_match) = <<"t", "r", "u", "e">>),
      issues |-> <<>>,
      suggestions |-> first_chars(strip(response), SuggestionsLimit),
      score |-> IF score_match = EmptyText THEN 0 ELSE int_of_digits(score_match)]

DefaultVerdict ==
  [satisfied |-> PyFalse, issues |-> <<>>, suggestions |-> EmptyText, score |-> 0]

\* the dictionary parse_review_response returns, or ValueError when it
\* raises: what the try block raises is caught, what line 152 raises is not
parse_review_response(response) ==
  IF ~py_truthy(response) THEN DefaultVerdict
  ELSE Bind(replace_quotes(object_match(response)), LAMBDA raw :
         Bind(json_loads(raw, ParseFrames), LAMBDA data :
           IF raw # EmptyText /\ data.ok
              /\ ~score_raises(dict_get(data.val.v, KeyScore, JInt(0)))
             THEN verdict_of_object(data.val.v)
           ELSE IF verdict_of_text_raises(response) THEN ValueError
           ELSE verdict_of_text(response)))

\* r is an exception that a call raised, not the value it returned
is_raised(r) == ~is_record(r)

\* the types of the values verdict_of_object returns: bool(...) is a bool,
\* the score an int, issues and suggestions whatever the reply holds, but
\* for an issues string, which is wrapped in a list
types_of_object(data) ==
  LET issues == dict_get(data, KeyIssues, JList(<<>>))
  IN [satisfied |-> "bool",
      issues |-> IF issues.t = "str" THEN "list" ELSE py_type(issues),
      suggestions |-> py_type(dict_get(data, KeySuggestions, JStr(EmptyText))),
      score |-> "int"]

\* the types of the values verdict_of_text returns: "satisfied_match and ..."
\* is None when the pattern was not found
types_of_text(response) ==
  [satisfied |-> IF satisfied_search(response) = EmptyText
                   THEN "NoneType" ELSE "bool",
   issues |-> "list", suggestions |-> "str", score |-> "int"]

DefaultTypes ==
  [satisfied |-> "bool", issues |-> "list", suggestions |-> "str", score |-> "int"]

\* no value is returned when the call raises
NoTypes ==
  [satisfied |-> "none", issues |-> "none", suggestions |-> "none", score |-> "none"]

\* the types of the values of parse_review_response(response)
parse_review_response_types(response) ==
  IF ~py_truthy(response) THEN DefaultTypes
  ELSE Bind(replace_quotes(object_match(response)), LAMBDA raw :
         Bind(json_loads(raw, ParseFrames), LAMBDA data :
           IF raw # EmptyText /\ data.ok
              /\ ~score_raises(dict_get(data.val.v, KeyScore, JInt(0)))
             THEN types_of_object(data.val.v)
           ELSE IF verdict_of_text_raises(response) THEN NoTypes
           ELSE types_of_text(response)))

\* len(x) raises TypeError for a value of this type
len_raises(type) == type \notin {"list", "str", "dict"}

\* ------------------------------------------------------------------------
\* What client.chat can return: None on a failure, or the reply text
\* ------------------------------------------------------------------------

ChatNone == [ok |-> FALSE, text |-> EmptyText]

ChatEmpty == [ok |-> TRUE, text |-> EmptyText]

ChatText(txt) == [ok |-> TRUE, text |-> txt]

\* a JSON string and a JSON list of strings
json_string(txt) == <<"\"">> \o txt \o <<"\"">>

json_string_list(items) ==
  <<"[">> \o Join(<<",", " ">>, [i \in 1..Len(items) |-> json_string(items[i])])
  \o <<"]">>

\* the reply of a reviewer that follows the requested output format
ReviewReply(v) ==
  <<"{">> \o json_string(KeySatisfied) \o <<":", " ">>
  \o (IF v.satisfied = PyTrue THEN <<"t", "r", "u", "e">>
                              ELSE <<"f", "a", "l", "s", "e">>)
  \o <<",", " ">> \o json_string(KeyIssues) \o <<":", " ">>
  \o json_string_list(v.issues)
  \o <<",", " ">> \o json_string(KeySuggestions) \o <<":", " ">>
  \o json_string(v.suggestions)
  \o <<",", " ">> \o json_string(KeyScore) \o <<":", " ">> \o str_of_nat(v.score)
  \o <<"}">>

ChatJson(v) == ChatText(ReviewReply(v))

\* the verdicts the reviewers of the loops reply with
LoopVerdicts ==
  { [satisfied |-> PyTrue,  issues |-> <<>>,       suggestions |-> EmptyText, score |-> 85],
    [satisfied |-> PyTrue,  issues |-> <<IssueX>>, suggestions |-> EmptyText, score |-> 85],
    [satisfied |-> PyFalse, issues |-> <<IssueX>>, suggestions |-> Advice,    score |-> 0],
    [satisfied |-> PyFalse, issues |-> <<>>,       suggestions |-> Advice,    score |-> 0],
    [satisfied |-> PyFalse, issues |-> <<>>,       suggestions |-> EmptyText, score |-> 85] }

\* the replies the review loops are run against
ChatResults == {ChatNone, ChatEmpty} \cup {ChatJson(v) : v \in LoopVerdicts}

\* llm_call: "return response or ''"
llm_call_result(chat) ==
  IF ~chat.ok \/ Len(chat.text) = 0 THEN EmptyText ELSE chat.text

\* a reply in the requested format whose issues value is null
NullIssuesText ==
  <<"{">> \o json_string(KeySatisfied) \o <<":", " ", "t", "r", "u", "e", ",", " ">>
  \o json_string(KeyIssues) \o <<":", " ", "n", "u", "l", "l", ",", " ">>
  \o json_string(KeySuggestions) \o <<":", " ", "\"", "\"", ",", " ">>
  \o json_string(KeyScore) \o <<":", " ", "9", "0", "}">>

\* a reply in the requested format whose suggestions value is null
NullSuggestionsText ==
  <<"{">> \o json_string(KeySatisfied) \o <<":", " ", "f", "a", "l", "s", "e", ",", " ">>
  \o json_string(KeyIssues) \o <<":", " ", "[", "]", ",", " ">>
  \o json_string(KeySuggestions) \o <<":", " ", "n", "u", "l", "l", ",", " ">>
  \o json_string(KeyScore) \o <<":", " ", "9", "0", "}">>

\* one digit more than int() converts
TooManyDigits == [i \in 1..4301 |-> "1"]

\* as many digits as int() converts, of the largest such number
MostDigits == [i \in 1..4300 |-> "9"]

\* the score written in a line of text
ScoreLineText(v) == json_string(KeyScore) \o <<":", " ">> \o v

\* the replies a review call of the loops may get: those of ChatResults,
\* replies whose issues or suggestions are null, and a reply whose score has
\* more digits than int() converts
ReviewChatResults ==
  ChatResults
    \cup {ChatText(NullIssuesText), ChatText(NullSuggestionsText),
          ChatText(ScoreLineText(TooManyDigits))}

\* parse_review_response(response) for each reply a review call of the loops
\* may get: the function reads nothing but its argument, so its value for a
\* reply is the same at every call
ReviewVerdicts ==
  [chat \in ReviewChatResults |-> parse_review_response(llm_call_result(chat))]

\* response = llm_call(...); parsed = parse_review_response(response)
parsed_reply(chat) ==
  IF chat \in ReviewChatResults THEN ReviewVerdicts[chat]
  ELSE parse_review_response(llm_call_result(chat))

\* ------------------------------------------------------------------------
\* Pure functions
\* ------------------------------------------------------------------------

\* a call that raises TypeError gives this in the place of a bool, and the
\* one-token text of it in the place of a text
TypeError == "<TypeError>"

RaisedTypeError == <<TypeError>>

\* r.get(key, default) of a verdict dictionary
verdict_get(r, key, default) == IF key \in DOMAIN r THEN r[key] ELSE default

\* "r.get('satisfied', False) and len(r.get('issues', [])) == 0" of one
\* verdict: its truth, or TypeError when len() is reached and raises
item_satisfied(r) ==
  IF ~py_truthy(verdict_get(r, "satisfied", PyFalse)) THEN PyFalse
  ELSE Bind(verdict_get(r, "issues", <<>>), LAMBDA issues :
         IF py_len_raises(issues) THEN TypeError
         ELSE PyBool(py_len(issues) = 0))

\* all(...) over the list from position i on: False at the first falsy
\* item, TypeError at the first item that raises
RECURSIVE all_satisfied_from(_, _)
all_satisfied_from(review_parsed_list, i) ==
  IF i > Len(review_parsed_list) THEN PyTrue
  ELSE Bind(item_satisfied(review_parsed_list[i]), LAMBDA item :
         IF item # PyTrue THEN item
         ELSE all_satisfied_from(review_parsed_list, i + 1))

\* is_all_satisfied with any(...) in the place of all(...)
is_all_satisfied_any(review_parsed_list) ==
  PyBool(\E i \in DOMAIN review_parsed_list :
           item_satisfied(review_parsed_list[i]) = PyTrue)

\* is_all_satisfied with the issue test turned round
is_all_satisfied_issues_required(review_parsed_list) ==
  PyBool(\A i \in DOMAIN review_parsed_list :
           /\ py_truthy(review_parsed_list[i].satisfied)
           /\ ~py_len_raises(review_parsed_list[i].issues)
           /\ py_len(review_parsed_list[i].issues) # 0)

\* all(r.satisfied and len(r.issues) == 0 for r in review_parsed_list)
is_all_satisfied(review_parsed_list) ==
  all_satisfied_from(review_parsed_list, 1)

\* "\n".join(f"  - {iss}" for iss in issues)
issues_str(issues) ==
  Join(<<"\n">>,
       [j \in 1..Len(py_iter(issues)) |->
          <<" ", " ", "-", " ">> \o py_str(py_iter(issues)[j])])

\* f"[{label}] <issues-heading>\n{issues_str}"
issues_part(label, issues) ==
  <<"[">> \o py_str(label) \o <<"]", " ", "<issues-heading>", "\n">>
  \o issues_str(issues)

\* f"[{label}] <advice-heading>{suggestions}"
suggestions_part(label, suggestions) ==
  <<"[">> \o py_str(label) \o <<"]", " ", "<advice-heading>">>
  \o py_str(suggestions)

\* "if parsed.get('satisfied') and not parsed.get('issues'): continue"
pair_skipped(parsed) ==
  /\ py_truthy(verdict_get(parsed, "satisfied", None))
  /\ ~py_truthy(verdict_get(parsed, "issues", None))

\* "for iss in issues" raises TypeError: the pair is not skipped and its
\* issues are truthy and cannot be iterated
pair_raises(parsed) ==
  /\ ~pair_skipped(parsed)
  /\ py_truthy(verdict_get(parsed, "issues", <<>>))
  /\ py_iter_raises(verdict_get(parsed, "issues", <<>>))

\* "if issues: parts.append(...)"
issues_parts(label, parsed) ==
  Bind(verdict_get(parsed, "issues", <<>>), LAMBDA issues :
    IF ~py_truthy(issues) THEN <<>>
    ELSE IF py_iter_raises(issues) THEN <<RaisedTypeError>>
    ELSE <<issues_part(label, issues)>>)

\* "if suggestions: parts.append(...)"
suggestions_parts(label, parsed) ==
  Bind(verdict_get(parsed, "suggestions", EmptyText), LAMBDA suggestions :
    IF py_truthy(suggestions)
      THEN <<suggestions_part(label, suggestions)>> ELSE <<>>)

\* pair_parts skipping on the satisfied flag alone
pair_parts_skip_on_flag(label, parsed) ==
  IF py_truthy(verdict_get(parsed, "satisfied", None)) THEN <<>>
  ELSE issues_parts(label, parsed) \o suggestions_parts(label, parsed)

\* pair_parts appending the suggestions before the issues
pair_parts_suggestions_first(label, parsed) ==
  IF pair_skipped(parsed) THEN <<>>
  ELSE suggestions_parts(label, parsed) \o issues_parts(label, parsed)

\* pair_parts without the "continue" for a satisfied verdict without issues
pair_parts_no_skip(label, parsed) ==
  issues_parts(label, parsed) \o suggestions_parts(label, parsed)

\* the parts one (label, parsed) pair of the zip appends
pair_parts(label, parsed) ==
  IF pair_skipped(parsed) THEN <<>>
  ELSE issues_parts(label, parsed) \o suggestions_parts(label, parsed)

\* zip(reviewer_labels, parsed_list) stops at the shorter of the two
zip_len(reviewer_labels, parsed_list) ==
  IF Len(reviewer_labels) < Len(parsed_list)
    THEN Len(reviewer_labels) ELSE Len(parsed_list)

\* the list "parts" after the first m pairs of the zip
RECURSIVE merge_parts(_, _, _)
merge_parts(parsed_list, reviewer_labels, m) ==
  IF m = 0 THEN <<>>
  ELSE merge_parts(parsed_list, reviewer_labels, m - 1)
       \o pair_parts(reviewer_labels[m], parsed_list[m])

\* the text returned, RaisedTypeError when the loop over a pair's issues
\* raises
merge_suggestions_from_parsed(parsed_list, reviewer_labels) ==
  IF \E m \in 1..zip_len(reviewer_labels, parsed_list) :
       pair_raises(parsed_list[m])
    THEN RaisedTypeError
    ELSE Join(<<"\n", "\n">>,
              merge_parts(parsed_list, reviewer_labels,
                          zip_len(reviewer_labels, parsed_list)))

\* ------------------------------------------------------------------------
\* State
\* ------------------------------------------------------------------------

VARIABLES
  \* what load_config() returns: agents_config.yaml as yaml.safe_load read it
  config,
  \* configuration, as main() hands it to the steps
  doc_reviewer_models,   \* sequence of identities, <<>> before main() set it
  doc_writer_models,     \* sequence of identities, <<>> before main() set it
  modules,               \* the module list of step 4
  factor,                \* the configured REVIEW_OPTIMIZE_FACTOR
  \* control of main / step 6 / step 7.2
  phase,                 \* the statement of main() that runs: "config",
                         \* "step1" ... "step72", "done"; "aborted" after the
                         \* return on an empty module list, "crashed" after
                         \* an exception that nothing caught
  module_idx,            \* index of the module step 6 is working on
  pc,                    \* "while", "for", "optimize", "exited"
  call_count,            \* the loop's call_count
  for_idx,               \* index in doc_reviewer_models of the next reviewer
  review_parsed_list,
  reviewer_labels,
  exit_reason,           \* how the while loop was left
  llm_call_index,        \* the global _llm_call_index
  \* history of the running loop (not program state)
  n_review,              \* review calls issued by this loop
  n_opt,                 \* optimize calls issued by this loop
  all_fully_satisfied,   \* every reply so far was satisfied with no issues
  pass_models,           \* the models the review calls of this pass went to
  pass_replied,          \* for each of them: the call returned a reply text
  last_call,             \* "review" / "optimize": the loop's latest call
  last_model,            \* model of the loop's latest call, None before it
  loop_calls_done,       \* the final call_count of the finished loops, added up
  \* step 7.1
  align_i,               \* the i of "for i in range(1, ALIGN_ROUNDS + 1)"
  previous_round_summary,
  \* history of step 7.1 (not program state)
  n_align,               \* alignment calls issued
  align_models,          \* the model of every alignment call, in order
  last_response,         \* the response of the latest alignment call
  prev_response,         \* the response of the alignment call before it
  last_prev_context,     \* prev_context in the prompt of the latest call
  \* the pure functions, applied to enumerated arguments
  in_parsed,             \* the verdict list given
  in_labels,             \* the label list given
  out_satisfied,         \* [called, value] of is_all_satisfied(in_parsed);
                         \* the value is PyTrue, PyFalse or TypeError
  out_merged,            \* [status, value] of merge_suggestions_from_parsed
  parse_in,              \* the response given to parse_review_response
  parse_out,             \* [status, value] of parse_review_response(parse_in)
  parse_types,           \* the Python type of each value of the result
  \* candidate selection of step 3
  scores,                \* candidate -> [total_score, issue_count]
  best_index,            \* step3_optimize_overall's choice, 0 before it ran
  leader_scores,         \* the dictionary "scores" of step2_review of
                         \* generate_requirement_leader.py
  \* step 2: scoring of the candidates
  reply_script,          \* the replies client.chat gives, call after call
  step2_scores,          \* the dictionary "scores" of step2_review_overall
  step2_reviewer_idx,    \* index in doc_reviewer_models of the outer loop
  step2_i,               \* the i of "for i in range(1, GENERATE_CANDIDATES + 1)"
  step2_call_count,      \* the call_count of step2_review_overall
  \* steps 1, 3, 4 and 5
  step1_i,               \* the i of step 1's "for i in range(1, ...)"
  step3_call,            \* the optimize calls of step 3: how many, the last one
  step5_idx              \* the idx of step 5's "for idx, module in enumerate"

cfgVars == <<config, doc_writer_models>>

alignVars ==
  <<align_i, previous_round_summary, n_align, align_models, last_response,
    prev_response, last_prev_context>>

loopVars ==
  <<doc_reviewer_models, modules, factor, phase, module_idx, pc, call_count,
    for_idx, review_parsed_list, reviewer_labels, exit_reason, llm_call_index,
    n_review, n_opt, all_fully_satisfied, pass_models, pass_replied,
    last_call, last_model, loop_calls_done, cfgVars, alignVars>>

parseVars == <<parse_in, parse_out, parse_types>>

pureVars == <<in_parsed, in_labels, out_satisfied, out_merged, parseVars>>

scoreVars ==
  <<reply_script, step2_scores, step2_reviewer_idx, step2_i, step2_call_count>>

mainVars == <<step1_i, step3_call, step5_idx>>

selVars == <<scores, best_index, leader_scores, scoreVars, mainVars>>

nonLoopVars == <<pureVars, selVars, cfgVars, alignVars>>

vars == <<loopVars, pureVars, selVars>>

ModuleNames == <<"user", "order", "pay", "stock">>

\* the list taken as configured, empty or not
models_or_default_keep_empty(cfg_models) == cfg_models

\* main(): "if not models: models = [None]"
models_or_default(cfg_models) ==
  IF ~py_truthy(cfg_models) THEN <<None>> ELSE cfg_models

\* a display name that does not depend on the model
reviewer_display_fixed(reviewer_model) == <<"<default-model>">>

\* reviewer_display = reviewer_model or "<default-model>"; the name of a
\* model is one token, and the label made of it the text of that token
reviewer_display(reviewer_model) ==
  IF ~py_truthy(reviewer_model) THEN <<"<default-model>">>
  ELSE IF type_of(reviewer_model) = "char" THEN <<reviewer_model>>
  ELSE reviewer_model

\* a budget of REVIEW_OPTIMIZE_FACTOR calls for each reviewer and one more
max_calls_per_module_per_reviewer == Len(doc_reviewer_models) * factor + 1

\* step 6: (len(doc_reviewer_models) + 1) * REVIEW_OPTIMIZE_FACTOR
max_calls_per_module == (Len(doc_reviewer_models) + 1) * factor

\* step 7.2: (len(doc_reviewer_models) + 1) * REVIEW_OPTIMIZE_FACTOR
max_calls == (Len(doc_reviewer_models) + 1) * factor

\* the fully satisfied verdict
FullySatisfied(v) == item_satisfied(v) = PyTrue

\* the verdict test or the merge after a review pass raises TypeError, which
\* nothing catches
judge_raises(parsed_list, labels) ==
  \/ is_all_satisfied(parsed_list) = TypeError
  \/ /\ is_all_satisfied(parsed_list) = PyFalse
     /\ merge_suggestions_from_parsed(parsed_list, labels) = RaisedTypeError

\* the control and the history of the loops, untouched outside them
loopLocals ==
  <<modules, factor, module_idx, pc, call_count, for_idx, review_parsed_list,
    reviewer_labels, exit_reason, n_review, n_opt, all_fully_satisfied,
    pass_models, pass_replied, last_call,
                 last_model, loop_calls_done>>

\* AttributeError, raised and not caught
AttributeError == "<AttributeError>"

\* x is the AttributeError a lookup raised
is_attribute_error(x) == ToString(x) = ToString(AttributeError)

\* the keys main() looks up
KeyAgents == <<"a", "g", "e", "n", "t", "s">>
KeyWriter == <<"d", "o", "c", "_", "w", "r", "i", "t", "e", "r">>
KeyReviewer == <<"d", "o", "c", "_", "r", "e", "v", "i", "e", "w", "e", "r">>
KeyModels == <<"m", "o", "d", "e", "l", "s">>

\* val.get(key, default): a mapping gives the value of the key, or the
\* default when it has no such key; None, which yaml.safe_load gives for an
\* empty file and for a key without a value, has no method get
config_get(val, key, default) ==
  IF ~is_record(val) THEN AttributeError
  ELSE IF val.t # "dict" THEN AttributeError
  ELSE dict_get(val.v, key, default)

\* config.get('agents', {}).get(role, {}).get('models', [])
config_models(cfg, role) ==
  config_get(config_get(config_get(cfg, KeyAgents, JDict(<<>>)), role, JDict(<<>>)),
             KeyModels, <<>>)

\* main() up to step 1: the writer list is looked up and an empty one becomes
\* [None], with a warning, then the reviewer list likewise. A lookup in a
\* section that is no mapping raises AttributeError, at line 892 before
\* anything is assigned, at line 897 after doc_writer_models was set
Main_Start ==
  /\ phase = "config"
  /\ \E w \in {config_models(config, KeyWriter)},
        r \in {config_models(config, KeyReviewer)} :
       IF is_attribute_error(w)
         THEN /\ phase' = "crashed"
              /\ UNCHANGED <<doc_writer_models, doc_reviewer_models>>
       ELSE IF is_attribute_error(r)
         THEN /\ phase' = "crashed"
              /\ doc_writer_models' = models_or_default(w)
              /\ UNCHANGED doc_reviewer_models
       ELSE /\ phase' = "step1"
            /\ doc_writer_models' = models_or_default(w)
            /\ doc_reviewer_models' = models_or_default(r)
  /\ UNCHANGED <<config, llm_call_index>>
  /\ UNCHANGED <<loopLocals, alignVars, pureVars, selVars>>

\* ------------------------------------------------------------------------
\* Step 7.1: interface alignment rounds
\* ------------------------------------------------------------------------

\* the label the prompt asks the summary to be put under
SummaryLabel == <<"<[>", "<ben>", "<lun>", "<dui>", "<qi>", "<zhai>", "<yao>", "<]>">>

\* response.strip()[-500:]
SummaryTail == 500

\* re.search of  SummaryLabel([\s\S]*?)(?:$|<[>) : the leftmost label, and
\* group 1 up to the next "<[>", the end, or the newline that ends the text
summary_match(response) ==
  LET hits == {p \in 1..Len(response) : starts_with(response, p, SummaryLabel)}
      g == FirstOf(hits) + Len(SummaryLabel)
      stops == {e \in g..(Len(response) + 1) :
                  \/ e = Len(response) + 1
                  \/ (e = Len(response) /\ response[e] = "\n")
                  \/ (e <= Len(response) /\ response[e] = "<[>")}
  IN IF hits = {} THEN [found |-> FALSE, group |-> EmptyText]
     ELSE [found |-> TRUE, group |-> SubSeq(response, g, FirstOf(stops) - 1)]

\* the summary one response gives
step71_summary(response) ==
  IF summary_match(response).found
    THEN strip(summary_match(response).group)
    ELSE IF Len(response) > 0 THEN last_chars(strip(response), SummaryTail)
    ELSE EmptyText

\* the assignment with the summary of the earlier round kept when the
\* response has no label
step71_next_summary_keep(previous, response) ==
  IF summary_match(response).found
    THEN strip(summary_match(response).group)
    ELSE previous

\* the assignment with the round's summary added to the earlier ones
step71_next_summary_append(previous, response) ==
  previous \o step71_summary(response)

\* previous_round_summary after a round, from its value before the round
\* and the round's response
step71_next_summary(previous, response) == step71_summary(response)

\* prev_context of round i: empty when previous_round_summary is empty, else
\* the heading naming round i - 1, the two lines of instructions, the summary
\* and an empty line
step71_prev_context(i, previous) ==
  IF Len(previous) = 0 THEN EmptyText
  ELSE <<"\n", "<prev-round-heading>">> \o str_of_nat(i - 1)
       \o <<"<prev-round-heading-end>", "\n", "<prev-round-advice>", "\n">>
       \o previous \o <<"\n", "\n">>

\* the index with no wrap: the last writer once the list is used up
step71_model_no_wrap(i) ==
  doc_writer_models[IF i > Len(doc_writer_models)
                      THEN Len(doc_writer_models) ELSE i]

\* doc_writer_models[(i - 1) % len(doc_writer_models)]
step71_model(i) ==
  doc_writer_models[((i - 1) % Len(doc_writer_models)) + 1]

\* the replies the alignment rounds are run against
PlainAlignReply == <<"a", "b", " ">>

LabeledAlignReply == <<"a", "\n">> \o SummaryLabel \o <<" ", "s", "\n", "<[>", "x", "<]>", "t">>

OtherLabeledAlignReply == SummaryLabel \o <<"u", "\n">>

\* a reply without the label, longer than the tail the summary keeps
LongAlignReply == <<"b">> \o [i \in 1..SummaryTail |-> "a"] \o <<"\n">>

AlignChatResults ==
  {ChatNone, ChatText(PlainAlignReply), ChatText(LabeledAlignReply),
   ChatText(OtherLabeledAlignReply), ChatText(LongAlignReply)}

\* one round of "for i in range(1, ALIGN_ROUNDS + 1)"
Step71_Round(chat) ==
  /\ phase = "step71"
  /\ align_i <= ALIGN_ROUNDS
  /\ LET model == step71_model(align_i)
         response == llm_call_result(chat)
     IN /\ llm_call_index' = llm_call_index + 1
        /\ previous_round_summary' =
             step71_next_summary(previous_round_summary, response)
        /\ n_align' = n_align + 1
        /\ align_models' = Append(align_models, model)
        /\ last_response' = response
        /\ prev_response' = last_response
        /\ last_prev_context' =
             step71_prev_context(align_i, previous_round_summary)
  /\ align_i' = align_i + 1
  /\ UNCHANGED <<doc_reviewer_models, phase, cfgVars, loopLocals, pureVars, selVars>>

\* the for loop is over: step71_align_interfaces returns, its locals are
\* gone, and main() goes on to step 7.2; the number of calls issued stays
\* on record
Step71_Return ==
  /\ phase = "step71"
  /\ align_i > ALIGN_ROUNDS
  /\ phase' = "step72"
  /\ align_i' = 1
  /\ previous_round_summary' = EmptyText
  /\ align_models' = <<>>
  /\ last_response' = EmptyText
  /\ prev_response' = EmptyText
  /\ last_prev_context' = EmptyText
  /\ UNCHANGED <<n_align, doc_reviewer_models, llm_call_index, cfgVars,
                 loopLocals, pureVars, selVars>>

\* ------------------------------------------------------------------------
\* Step 6: review -> optimize loop of one module
\* ------------------------------------------------------------------------

\* "writer_model = doc_writer_models[0]" of the step-6 optimize call
step6_writer_model == doc_writer_models[1]

\* "while call_count < max_calls_per_module"
step6_while_cond == call_count < max_calls_per_module

\* "if call_count >= max_calls_per_module: break" inside the reviewer loop
step6_for_break == call_count >= max_calls_per_module

\* "if call_count >= max_calls_per_module: break" before the optimize call
step6_budget_reached == call_count >= max_calls_per_module

\* Step6_While with "call_count = 0" inside the while loop
Step6_While_ResetCount ==
  /\ UNCHANGED nonLoopVars
  /\ phase = "step6" /\ pc = "while"
  /\ IF call_count < max_calls_per_module
       THEN /\ pc' = "for"
            /\ call_count' = 0
            /\ review_parsed_list' = <<>>
            /\ reviewer_labels' = <<>>
            /\ for_idx' = 1
            /\ pass_models' = <<>>
            /\ pass_replied' = <<>>
            /\ UNCHANGED exit_reason
       ELSE /\ pc' = "exited"
            /\ exit_reason' = "while_exit"
            /\ UNCHANGED <<review_parsed_list, reviewer_labels, for_idx, call_count,
                           pass_models, pass_replied>>
  /\ UNCHANGED <<doc_reviewer_models, modules, factor, phase, module_idx,
                 llm_call_index, n_review, n_opt, all_fully_satisfied, last_call,
                 last_model, loop_calls_done>>

Step6_While ==
  /\ UNCHANGED nonLoopVars
  /\ phase = "step6" /\ pc = "while"
  /\ IF step6_while_cond
       THEN /\ pc' = "for"
            /\ review_parsed_list' = <<>>
            /\ reviewer_labels' = <<>>
            /\ for_idx' = 1
            /\ pass_models' = <<>>
            /\ pass_replied' = <<>>
            /\ UNCHANGED exit_reason
       ELSE /\ pc' = "exited"
            /\ exit_reason' = "while_exit"
            /\ UNCHANGED <<review_parsed_list, reviewer_labels, for_idx,
                           pass_models, pass_replied>>
  /\ UNCHANGED <<doc_reviewer_models, modules, factor, phase, module_idx,
                 call_count, llm_call_index, n_review, n_opt,
                 all_fully_satisfied, last_call,
                 last_model, loop_calls_done>>

\* one iteration of "for reviewer_model in doc_reviewer_models"; the
\* len(parsed['issues']) of line 647 raises TypeError for issues that have
\* no length, and nothing catches it: the program ends
Step6_Review(chat) ==
  /\ UNCHANGED nonLoopVars
  /\ phase = "step6" /\ pc = "for"
  /\ for_idx <= Len(doc_reviewer_models)
  /\ ~step6_for_break
  /\ call_count' = call_count + 1
  /\ llm_call_index' = llm_call_index + 1
  /\ n_review' = n_review + 1
  /\ pass_models' = Append(pass_models, doc_reviewer_models[for_idx])
  /\ pass_replied' = Append(pass_replied, llm_call_result(chat) # EmptyText)
  /\ last_call' = "review"
  /\ last_model' = doc_reviewer_models[for_idx]
  /\ \E parsed \in {parsed_reply(chat)} :
       IF is_raised(parsed)
         THEN /\ phase' = "crashed"
              /\ UNCHANGED <<review_parsed_list, reviewer_labels, for_idx,
                             all_fully_satisfied>>
         ELSE /\ review_parsed_list' = Append(review_parsed_list, parsed)
              /\ reviewer_labels' =
                   Append(reviewer_labels,
                          reviewer_display(doc_reviewer_models[for_idx]))
              /\ for_idx' =
                   IF py_len_raises(parsed.issues) THEN for_idx ELSE for_idx + 1
              /\ all_fully_satisfied' =
                   (all_fully_satisfied /\ FullySatisfied(parsed))
              /\ phase' = IF py_len_raises(parsed.issues) THEN "crashed" ELSE phase
  /\ UNCHANGED <<doc_reviewer_models, modules, factor, module_idx, pc,
                 exit_reason, n_opt,
                 loop_calls_done>>


\* Step6_Judge without the test of the merged suggestions
Step6_Judge_NoMergeTest ==
  /\ UNCHANGED nonLoopVars
  /\ phase = "step6" /\ pc = "for"
  /\ (for_idx > Len(doc_reviewer_models) \/ call_count >= max_calls_per_module)
  /\ IF is_all_satisfied(review_parsed_list) = PyTrue
       THEN pc' = "exited" /\ exit_reason' = "converged"
       ELSE IF call_count >= max_calls_per_module
         THEN pc' = "exited" /\ exit_reason' = "budget_break"
         ELSE pc' = "optimize" /\ UNCHANGED exit_reason
  /\ UNCHANGED <<doc_reviewer_models, modules, factor, phase, module_idx,
                 call_count, for_idx, review_parsed_list, reviewer_labels,
                 llm_call_index, n_review, n_opt, all_fully_satisfied, pass_models,
                 pass_replied, last_call,
                 last_model, loop_calls_done>>

\* the reviewer loop is over: 6.2, the merge and the budget test
Step6_Judge ==
  /\ UNCHANGED nonLoopVars
  /\ phase = "step6" /\ pc = "for"
  /\ (for_idx > Len(doc_reviewer_models) \/ step6_for_break)
  /\ IF judge_raises(review_parsed_list, reviewer_labels)
       THEN phase' = "crashed" /\ UNCHANGED <<pc, exit_reason>>
       ELSE /\ UNCHANGED phase
            /\ IF is_all_satisfied(review_parsed_list) = PyTrue
                 THEN pc' = "exited" /\ exit_reason' = "converged"
                 ELSE IF merge_suggestions_from_parsed(review_parsed_list,
                                                       reviewer_labels)
                           = EmptyText
                   THEN pc' = "exited" /\ exit_reason' = "no_feedback"
                   ELSE IF step6_budget_reached
                     THEN pc' = "exited" /\ exit_reason' = "budget_break"
                     ELSE pc' = "optimize" /\ UNCHANGED exit_reason
  /\ UNCHANGED <<doc_reviewer_models, modules, factor, module_idx,
                 call_count, for_idx, review_parsed_list, reviewer_labels,
                 llm_call_index, n_review, n_opt, all_fully_satisfied, pass_models,
                 pass_replied, last_call,
                 last_model, loop_calls_done>>

\* the optimize call; its reply is not read
Step6_Optimize(chat) ==
  /\ UNCHANGED nonLoopVars
  /\ phase = "step6" /\ pc = "optimize"
  /\ call_count' = call_count + 1
  /\ llm_call_index' = llm_call_index + 1
  /\ n_opt' = n_opt + 1
  /\ last_call' = "optimize"
  /\ last_model' = step6_writer_model
  /\ pc' = "while"
  /\ UNCHANGED <<doc_reviewer_models, modules, factor, phase, module_idx,
                 for_idx, review_parsed_list, reviewer_labels, exit_reason,
                 n_review, all_fully_satisfied, pass_models, pass_replied,
                 loop_calls_done>>

\* Step6_ModuleDone with "call_count = 0" before the loop over the modules
Step6_ModuleDone_SharedCount ==
  /\ UNCHANGED nonLoopVars
  /\ phase = "step6" /\ pc = "exited"
  /\ IF module_idx < Len(modules)
       THEN /\ module_idx' = module_idx + 1
            /\ UNCHANGED <<phase, for_idx, review_parsed_list, reviewer_labels,
                           call_count>>
       ELSE /\ phase' = "step71"
            /\ for_idx' = 1
            /\ review_parsed_list' = <<>>
            /\ reviewer_labels' = <<>>
            /\ call_count' = 0
            /\ UNCHANGED module_idx
  /\ pc' = "while"
  /\ exit_reason' = "none"
  /\ n_review' = 0 /\ n_opt' = 0 /\ all_fully_satisfied' = TRUE
  /\ pass_models' = <<>> /\ pass_replied' = <<>> /\ last_call' = "none"
  /\ last_model' = None
  /\ loop_calls_done' = loop_calls_done + call_count
  /\ UNCHANGED <<doc_reviewer_models, modules, factor, llm_call_index>>

\* Step6_ModuleDone with the global counter set back like call_count
Step6_ModuleDone_ResetIndex ==
  /\ UNCHANGED nonLoopVars
  /\ phase = "step6" /\ pc = "exited"
  /\ IF module_idx < Len(modules)
       THEN /\ module_idx' = module_idx + 1
            /\ UNCHANGED <<phase, for_idx, review_parsed_list, reviewer_labels>>
       ELSE /\ phase' = "step71"
            /\ for_idx' = 1
            /\ review_parsed_list' = <<>>
            /\ reviewer_labels' = <<>>
            /\ UNCHANGED module_idx
  /\ call_count' = 0
  /\ pc' = "while"
  /\ exit_reason' = "none"
  /\ n_review' = 0 /\ n_opt' = 0 /\ all_fully_satisfied' = TRUE
  /\ pass_models' = <<>> /\ pass_replied' = <<>> /\ last_call' = "none"
  /\ last_model' = None
  /\ loop_calls_done' = loop_calls_done + call_count
  /\ llm_call_index' = 0
  /\ UNCHANGED <<doc_reviewer_models, modules, factor>>

\* "for module in modules": the next module starts with call_count = 0;
\* after the last one the function returns, its locals are gone, and main()
\* goes on to step 7.1
Step6_ModuleDone ==
  /\ UNCHANGED nonLoopVars
  /\ phase = "step6" /\ pc = "exited"
  /\ IF module_idx < Len(modules)
       THEN /\ module_idx' = module_idx + 1
            /\ UNCHANGED <<phase, for_idx, review_parsed_list, reviewer_labels>>
       ELSE /\ phase' = "step71"
            /\ for_idx' = 1
            /\ review_parsed_list' = <<>>
            /\ reviewer_labels' = <<>>
            /\ UNCHANGED module_idx
  /\ call_count' = 0
  /\ pc' = "while"
  /\ exit_reason' = "none"
  /\ n_review' = 0 /\ n_opt' = 0 /\ all_fully_satisfied' = TRUE
  /\ pass_models' = <<>> /\ pass_replied' = <<>> /\ last_call' = "none"
  /\ last_model' = None
  /\ loop_calls_done' = loop_calls_done + call_count
  /\ UNCHANGED <<doc_reviewer_models, modules, factor, llm_call_index>>

\* ------------------------------------------------------------------------
\* Step 7.2 - 7.4: global review -> optimize loop
\* ------------------------------------------------------------------------

\* "writer_model = doc_writer_models[0]" of the 7.4 optimize call
step72_writer_model == doc_writer_models[1]

\* "while call_count < max_calls"
step72_while_cond == call_count < max_calls

\* "if call_count >= max_calls: break" inside the reviewer loop
step72_for_break == call_count >= max_calls

\* "if call_count >= max_calls: break" before the optimize call
step72_budget_reached == call_count >= max_calls

Step72_While ==
  /\ UNCHANGED nonLoopVars
  /\ phase = "step72" /\ pc = "while"
  /\ IF step72_while_cond
       THEN /\ pc' = "for"
            /\ review_parsed_list' = <<>>
            /\ reviewer_labels' = <<>>
            /\ for_idx' = 1
            /\ pass_models' = <<>>
            /\ pass_replied' = <<>>
            /\ UNCHANGED exit_reason
       ELSE /\ pc' = "exited"
            /\ exit_reason' = "while_exit"
            /\ UNCHANGED <<review_parsed_list, reviewer_labels, for_idx,
                           pass_models, pass_replied>>
  /\ UNCHANGED <<doc_reviewer_models, modules, factor, phase, module_idx,
                 call_count, llm_call_index, n_review, n_opt,
                 all_fully_satisfied, last_call,
                 last_model, loop_calls_done>>

\* one iteration of the reviewer loop; the len(parsed['issues']) of line
\* 830 raises TypeError for issues that have no length
Step72_Review(chat) ==
  /\ UNCHANGED nonLoopVars
  /\ phase = "step72" /\ pc = "for"
  /\ for_idx <= Len(doc_reviewer_models)
  /\ ~step72_for_break
  /\ call_count' = call_count + 1
  /\ llm_call_index' = llm_call_index + 1
  /\ n_review' = n_review + 1
  /\ pass_models' = Append(pass_models, doc_reviewer_models[for_idx])
  /\ pass_replied' = Append(pass_replied, llm_call_result(chat) # EmptyText)
  /\ last_call' = "review"
  /\ last_model' = doc_reviewer_models[for_idx]
  /\ \E parsed \in {parsed_reply(chat)} :
       IF is_raised(parsed)
         THEN /\ phase' = "crashed"
              /\ UNCHANGED <<review_parsed_list, reviewer_labels, for_idx,
                             all_fully_satisfied>>
         ELSE /\ review_parsed_list' = Append(review_parsed_list, parsed)
              /\ reviewer_labels' =
                   Append(reviewer_labels,
                          reviewer_display(doc_reviewer_models[for_idx]))
              /\ for_idx' =
                   IF py_len_raises(parsed.issues) THEN for_idx ELSE for_idx + 1
              /\ all_fully_satisfied' =
                   (all_fully_satisfied /\ FullySatisfied(parsed))
              /\ phase' = IF py_len_raises(parsed.issues) THEN "crashed" ELSE phase
  /\ UNCHANGED <<doc_reviewer_models, modules, factor, module_idx, pc,
                 exit_reason, n_opt,
                 loop_calls_done>>

\* Step72_Judge going on to the optimize call when there is no feedback
Step72_Judge_OptimizeWithoutFeedback ==
  /\ UNCHANGED nonLoopVars
  /\ phase = "step72" /\ pc = "for"
  /\ (for_idx > Len(doc_reviewer_models) \/ call_count >= max_calls)
  /\ IF is_all_satisfied(review_parsed_list) = PyTrue
       THEN pc' = "exited" /\ exit_reason' = "converged"
       ELSE IF call_count >= max_calls
         THEN pc' = "exited" /\ exit_reason' = "budget_break"
         ELSE pc' = "optimize" /\ UNCHANGED exit_reason
  /\ UNCHANGED <<doc_reviewer_models, modules, factor, phase, module_idx,
                 call_count, for_idx, review_parsed_list, reviewer_labels,
                 llm_call_index, n_review, n_opt, all_fully_satisfied, pass_models,
                 pass_replied, last_call,
                 last_model, loop_calls_done>>

Step72_Judge ==
  /\ UNCHANGED nonLoopVars
  /\ phase = "step72" /\ pc = "for"
  /\ (for_idx > Len(doc_reviewer_models) \/ step72_for_break)
  /\ IF judge_raises(review_parsed_list, reviewer_labels)
       THEN phase' = "crashed" /\ UNCHANGED <<pc, exit_reason>>
       ELSE /\ UNCHANGED phase
            /\ IF is_all_satisfied(review_parsed_list) = PyTrue
                 THEN pc' = "exited" /\ exit_reason' = "converged"
                 ELSE IF merge_suggestions_from_parsed(review_parsed_list,
                                                       reviewer_labels)
                           = EmptyText
                   THEN pc' = "exited" /\ exit_reason' = "no_feedback"
                   ELSE IF step72_budget_reached
                     THEN pc' = "exited" /\ exit_reason' = "budget_break"
                     ELSE pc' = "optimize" /\ UNCHANGED exit_reason
  /\ UNCHANGED <<doc_reviewer_models, modules, factor, module_idx,
                 call_count, for_idx, review_parsed_list, reviewer_labels,
                 llm_call_index, n_review, n_opt, all_fully_satisfied, pass_models,
                 pass_replied, last_call,
                 last_model, loop_calls_done>>

\* Step72_Optimize without "call_count += 1"
Step72_Optimize_Uncounted(chat) ==
  /\ UNCHANGED nonLoopVars
  /\ phase = "step72" /\ pc = "optimize"
  /\ llm_call_index' = llm_call_index + 1
  /\ n_opt' = n_opt + 1
  /\ last_call' = "optimize"
  /\ last_model' = step72_writer_model
  /\ pc' = "while"
  /\ UNCHANGED <<doc_reviewer_models, modules, factor, phase, module_idx,
                 for_idx, review_parsed_list, reviewer_labels, exit_reason,
                 n_review, all_fully_satisfied, pass_models, pass_replied,
                 call_count,
                 loop_calls_done>>

Step72_Optimize(chat) ==
  /\ UNCHANGED nonLoopVars
  /\ phase = "step72" /\ pc = "optimize"
  /\ call_count' = call_count + 1
  /\ llm_call_index' = llm_call_index + 1
  /\ n_opt' = n_opt + 1
  /\ last_call' = "optimize"
  /\ last_model' = step72_writer_model
  /\ pc' = "while"
  /\ UNCHANGED <<doc_reviewer_models, modules, factor, phase, module_idx,
                 for_idx, review_parsed_list, reviewer_labels, exit_reason,
                 n_review, all_fully_satisfied, pass_models, pass_replied,
                 loop_calls_done>>

\* step72_review_optimize_all returns and main() ends
Step72_Return ==
  /\ UNCHANGED nonLoopVars
  /\ phase = "step72" /\ pc = "exited"
  /\ phase' = "done"
  /\ UNCHANGED <<doc_reviewer_models, modules, factor, module_idx, pc,
                 call_count, for_idx, review_parsed_list, reviewer_labels,
                 exit_reason, llm_call_index, n_review, n_opt,
                 all_fully_satisfied, pass_models,
                 pass_replied, last_call,
                 last_model, loop_calls_done>>

\* ------------------------------------------------------------------------
\* The pure functions applied to enumerated arguments
\* ------------------------------------------------------------------------

WellFormedVerdicts ==
  [satisfied : {PyTrue, PyFalse, None}, issues : IssueLists,
   suggestions : SuggestionTexts, score : {85}]

\* dictionaries parse_review_response returns for replies whose issues or
\* suggestions are no list and no string: null and null, the number 3 and a
\* string, no issues and the list ["s"]
IllTypedVerdicts ==
  << [satisfied |-> PyTrue,  issues |-> None, suggestions |-> None,       score |-> 85],
     [satisfied |-> PyFalse, issues |-> 3,    suggestions |-> Advice,     score |-> 85],
     [satisfied |-> PyFalse, issues |-> <<>>, suggestions |-> <<Advice>>, score |-> 85] >>

\* the members of a set, one after the other
RECURSIVE SeqOfSet(_)
SeqOfSet(S) ==
  IF S = {} THEN <<>>
  ELSE Bind(CHOOSE x \in S : TRUE, LAMBDA x : <<x>> \o SeqOfSet(S \ {x}))

\* the verdicts the two functions are applied to
PureVerdicts == SeqOfSet(WellFormedVerdicts) \o IllTypedVerdicts

LabelTexts == {<<"<default-model>">>, <<"gpt">>}

Call_is_all_satisfied ==
  /\ phase = "pure"
  /\ ~out_satisfied.called
  /\ out_satisfied' = [called |-> TRUE, value |-> is_all_satisfied(in_parsed)]
  /\ UNCHANGED <<in_parsed, in_labels, out_merged, parseVars>>
  /\ UNCHANGED <<loopVars, selVars>>

\* the call returns the merged text, or raises the TypeError of the loop
\* over the issues
Call_merge_suggestions_from_parsed ==
  /\ phase = "pure"
  /\ out_merged.status = "not_called"
  /\ out_merged' =
       IF merge_suggestions_from_parsed(in_parsed, in_labels) = RaisedTypeError
         THEN [status |-> "raised", value |-> EmptyText]
         ELSE [status |-> "returned",
               value |-> merge_suggestions_from_parsed(in_parsed, in_labels)]
  /\ UNCHANGED <<in_parsed, in_labels, out_satisfied, parseVars>>
  /\ UNCHANGED <<loopVars, selVars>>

\* the texts parse_review_response is applied to: every text of up to
\* MaxTextLen characters over ParseChars, texts the fallback patterns match,
\* the replies of the review loops, and a text longer than the limit of the
\* suggestions slice
ParseChars == {"a", " ", "{", "}", "7"}

ScoreText == <<"\"">> \o KeyScore \o <<"\"", ":", " ", "7", "0">>

SatisfiedText == <<"\"">> \o KeySatisfied \o <<"\"", " ", ":", "T", "r", "u", "e", "!">>

UnsatisfiedText ==
  <<"n", "o", " ", "\"">> \o KeySatisfied \o <<"\"", ":", " ", "f", "a", "l", "s", "e">>

BrokenObjectText ==
  <<"{", "\"">> \o KeyScore \o <<"\"", ":", " ", "\"", "4", "2", "\"", ",", "}">>

\* a reply whose issues value is a number and whose suggestions are a list
NumberIssuesText ==
  <<"{">> \o json_string(KeyIssues) \o <<":", " ", "3", ",", " ">>
  \o json_string(KeySuggestions) \o <<":", " ", "[", "\"", "s", "\"", "]", "}">>

\* a reply whose issues value is one string
StringIssuesText ==
  <<"{">> \o json_string(KeyIssues) \o <<":", " ">> \o json_string(IssueX) \o <<"}">>

\* the Bengali digit three, a decimal digit to str.isdigit and to int()
BengaliThree == chr(2537)

\* the Ethiopic digit one, a digit to str.isdigit and none to int()
EthiopicOne == chr(4969)

\* what a reply may write as its score
ScoreValueTexts ==
  { <<"8", "5">>, <<"2", "5", "0">>, <<"-", "5">>, <<"9", ".", "5">>,
    <<"\"", "1", "2", "0", "\"">>, <<"\"", "a", "b", "c", "\"">>,
    <<"\"", " ", "7", " ", "\"">>, <<"\"", "1", "2", "a", "\"">>,
    <<"t", "r", "u", "e">>,
    <<"\"", BengaliThree, "\"">>, <<"\"", EthiopicOne, "\"">>,
    TooManyDigits, json_string(TooManyDigits),
    <<"\"", " ">> \o TooManyDigits \o <<" ", "\"">> }

\* the score written in an object and in a broken object
ScoreObjectText(v) == <<"{">> \o json_string(KeyScore) \o <<":", " ">> \o v \o <<"}">>

ScoreBrokenText(v) ==
  <<"{">> \o json_string(KeyScore) \o <<":", " ">> \o v \o <<",", "}">>

LongText == <<" ">> \o [i \in 1..(SuggestionsLimit + 1) |-> "a"] \o <<" ">>

ParseTexts ==
  SeqUpTo(ParseChars, MaxTextLen)
    \cup {ScoreText, SatisfiedText, UnsatisfiedText, BrokenObjectText, LongText}
    \cup {NullIssuesText, NumberIssuesText, StringIssuesText,
          NullSuggestionsText}
    \cup {ScoreObjectText(v) : v \in ScoreValueTexts}
    \cup {ScoreLineText(v) : v \in ScoreValueTexts}
    \cup {ScoreBrokenText(v) : v \in ScoreValueTexts}
    \cup {ReviewReply(v) : v \in LoopVerdicts}

\* the call returns a dictionary, or leaves by the ValueError of line 152;
\* every exception of the decoding is caught at line 146
Call_parse_review_response ==
  /\ phase = "parse"
  /\ parse_out.status = "not_called"
  /\ \E parsed \in {parse_review_response(parse_in)} :
       parse_out' = IF is_raised(parsed)
                      THEN [status |-> "raised", value |-> DefaultVerdict]
                      ELSE [status |-> "returned", value |-> parsed]
  /\ parse_types' = parse_review_response_types(parse_in)
  /\ UNCHANGED <<parse_in, in_parsed, in_labels, out_satisfied, out_merged>>
  /\ UNCHANGED <<loopVars, selVars>>

\* ------------------------------------------------------------------------
\* Step 2: every reviewer scores every candidate
\* ------------------------------------------------------------------------

\* what a reviewer may answer to a scoring prompt: nothing (the call failed),
\* or issues, suggestions and a score
\* in the place of an answer's issue list: the answer writes null for it
NullIssues == <<"<null>">>

ScoreAnswers ==
  { [failed |-> TRUE,  issues |-> <<>>,               suggestions |-> EmptyText, score |-> 0],
    [failed |-> FALSE, issues |-> <<>>,               suggestions |-> EmptyText, score |-> 85],
    [failed |-> FALSE, issues |-> <<IssueX>>,         suggestions |-> EmptyText, score |-> 70],
    [failed |-> FALSE, issues |-> <<IssueX, IssueY>>, suggestions |-> Advice,    score |-> 40],
    [failed |-> FALSE, issues |-> <<>>,               suggestions |-> Advice,    score |-> 120],
    [failed |-> FALSE, issues |-> <<NullIssues>>,     suggestions |-> EmptyText, score |-> 60],
    [failed |-> FALSE, issues |-> <<>>,               suggestions |-> EmptyText, score |-> -1] }

\* the digits an answer writes as its score; -1 stands for a number of more
\* digits than int() converts, -2 for the largest number it converts
ScoreDigits(n) ==
  IF n = -1 THEN TooManyDigits
  ELSE IF n = -2 THEN MostDigits
  ELSE str_of_nat(n)

\* the reply that follows SCORE_OUTPUT_FORMAT: issues, suggestions, score
ScoreReply(a) ==
  <<"{">> \o json_string(KeyIssues) \o <<":", " ">>
  \o (IF a.issues = <<NullIssues>> THEN <<"n", "u", "l", "l">>
                                   ELSE json_string_list(a.issues))
  \o <<",", " ">> \o json_string(KeySuggestions) \o <<":", " ">>
  \o json_string(a.suggestions)
  \o <<",", " ">> \o json_string(KeyScore) \o <<":", " ">> \o ScoreDigits(a.score)
  \o <<"}">>

\* what client.chat returns for an answer
ScoreChat(a) == IF a.failed THEN ChatNone ELSE ChatText(ScoreReply(a))

\* the answers the calls of one run get: the script is gone through call
\* after call and starts over when it is used up
ReplyScripts == UNION {[1..m -> ScoreAnswers] : m \in 1..MaxScriptLen}

\* the answer to the k-th call
ScriptAnswer(k) == reply_script[((k - 1) % Len(reply_script)) + 1]

\* an entry of "scores" as line 288 builds it
NewScoreEntry ==
  [total_score |-> 0, issue_count |-> 0, suggestions_by_model |-> <<>>,
   labels |-> <<>>]

\* "if issues or suggestions"
step2_has_feedback(parsed) ==
  py_truthy(parsed.issues) \/ py_truthy(parsed.suggestions)

\* line 331 alone: the len(issues) of line 332 raised TypeError
step2_entry_add_score(entry, parsed) ==
  [entry EXCEPT !.total_score = py_add(entry.total_score, parsed.score)]

\* the entry with one added to issue_count for a verdict that has issues
step2_entry_add_flag(entry, parsed, display) ==
  IF py_len_raises(parsed.issues) THEN step2_entry_add_score(entry, parsed)
  ELSE
  [total_score |-> py_add(entry.total_score, parsed.score),
   issue_count |->
     entry.issue_count + (IF py_len(parsed.issues) > 0 THEN 1 ELSE 0),
   suggestions_by_model |->
     IF step2_has_feedback(parsed)
       THEN Append(entry.suggestions_by_model, parsed)
       ELSE entry.suggestions_by_model,
   labels |->
     IF step2_has_feedback(parsed)
       THEN Append(entry.labels, display) ELSE entry.labels]

\* the entry that appends the verdicts that are unsatisfied or have
\* suggestions
step2_entry_add_unsatisfied(entry, parsed, display) ==
  IF py_len_raises(parsed.issues) THEN step2_entry_add_score(entry, parsed)
  ELSE
  [total_score |-> py_add(entry.total_score, parsed.score),
   issue_count |-> entry.issue_count + py_len(parsed.issues),
   suggestions_by_model |->
     IF parsed.satisfied # PyTrue \/ py_truthy(parsed.suggestions)
       THEN Append(entry.suggestions_by_model, parsed)
       ELSE entry.suggestions_by_model,
   labels |->
     IF parsed.satisfied # PyTrue \/ py_truthy(parsed.suggestions)
       THEN Append(entry.labels, display) ELSE entry.labels]

\* lines 331-335: scores[i] after the verdict of one call was added; when
\* the len(issues) of line 332 raises, the score alone was added
step2_entry_add(entry, parsed, display) ==
  IF py_len_raises(parsed.issues) THEN step2_entry_add_score(entry, parsed)
  ELSE
  [total_score |-> py_add(entry.total_score, parsed.score),
   issue_count |-> entry.issue_count + py_len(parsed.issues),
   suggestions_by_model |->
     IF step2_has_feedback(parsed)
       THEN Append(entry.suggestions_by_model, parsed)
       ELSE entry.suggestions_by_model,
   labels |->
     IF step2_has_feedback(parsed)
       THEN Append(entry.labels, display) ELSE entry.labels]

\* one iteration of the inner loop: one call, one verdict added to
\* scores[i]; a ValueError of line 326 or a TypeError of line 332 ends the
\* program
Step2_Review ==
  /\ phase = "step2"
  /\ step2_reviewer_idx <= Len(doc_reviewer_models)
  /\ LET reviewer_model == doc_reviewer_models[step2_reviewer_idx]
         chat == ScoreChat(ScriptAnswer(step2_call_count + 1))
     IN \E parsed \in {parse_review_response(llm_call_result(chat))} :
        IF is_raised(parsed)
          THEN /\ phase' = "crashed"
               /\ UNCHANGED <<step2_scores, step2_i, step2_reviewer_idx>>
        ELSE
        /\ step2_scores' =
             [step2_scores EXCEPT ![step2_i] =
                step2_entry_add(@, parsed, reviewer_display(reviewer_model))]
        /\ IF py_len_raises(parsed.issues)
             THEN /\ phase' = "crashed"
                  /\ UNCHANGED <<step2_i, step2_reviewer_idx>>
             ELSE /\ UNCHANGED phase
                  /\ IF step2_i < GENERATE_CANDIDATES
                       THEN /\ step2_i' = step2_i + 1
                            /\ UNCHANGED step2_reviewer_idx
                       ELSE /\ step2_i' = 1
                            /\ step2_reviewer_idx' = step2_reviewer_idx + 1
  /\ step2_call_count' = step2_call_count + 1
  /\ llm_call_index' = llm_call_index + 1
  /\ UNCHANGED <<reply_script, scores, best_index, leader_scores, mainVars>>
  /\ UNCHANGED <<doc_reviewer_models, cfgVars, loopLocals, alignVars,
                 pureVars>>

\* "return scores": main() goes on to step 3
Step2_Return ==
  /\ phase = "step2"
  /\ step2_reviewer_idx > Len(doc_reviewer_models)
  /\ phase' = "step3"
  /\ UNCHANGED <<doc_reviewer_models, llm_call_index, cfgVars, loopLocals,
                 alignVars, pureVars, selVars>>

\* ------------------------------------------------------------------------
\* Candidate selection
\* ------------------------------------------------------------------------

\* generate_requirement_leader.py: range(1, 6)
LEADER_CANDIDATES == 5

\* the text put in the place of an empty merged feedback
GenericAdvice == <<"<generic-advice>">>

\* str(x) of the int x raises ValueError: x has more digits than the
\* conversion takes
int_str_raises(x) ==
  is_bigint(x) /\ too_many_digits(IF x.v[1] = "-" THEN Tail(x.v) ELSE x.v)

\* lines 351-352: the log of the totals formats every total_score
step3_log_raises(sc) ==
  \E i \in 1..GENERATE_CANDIDATES : int_str_raises(sc[i].total_score)

\* the key without the minus sign: (total_score, issue_count)
overall_key_gt_more_issues(a, b) ==
  \/ py_less(b.total_score, a.total_score)
  \/ /\ py_equal(a.total_score, b.total_score)
     /\ a.issue_count > b.issue_count

\* (total_score, -issue_count) of a > (total_score, -issue_count) of b
overall_key_gt(a, b) ==
  \/ py_less(b.total_score, a.total_score)
  \/ /\ py_equal(a.total_score, b.total_score)
     /\ (0 - a.issue_count) > (0 - b.issue_count)

\* max(range(1, n + 1), key = ...): the first of the largest
RECURSIVE overall_max(_, _)
overall_max(sc, n) ==
  IF n = 1 THEN 1
  ELSE LET best == overall_max(sc, n - 1) IN
         IF overall_key_gt(sc[n], sc[best]) THEN n ELSE best

\* the last of the largest
RECURSIVE overall_max_last(_, _)
overall_max_last(sc, n) ==
  IF n = 1 THEN 1
  ELSE LET best == overall_max_last(sc, n - 1) IN
         IF overall_key_gt(sc[best], sc[n]) THEN best ELSE n

step3_best_index_last(sc) == overall_max_last(sc, GENERATE_CANDIDATES)

\* step3_optimize_overall: best_index
step3_best_index(sc) == overall_max(sc, GENERATE_CANDIDATES)

\* lines 351-354 on a score table: the log of the totals, then the choice;
\* a total the log cannot format ends the program with nothing chosen
Step3_SelectBest ==
  /\ phase = "select"
  /\ best_index = 0
  /\ IF step3_log_raises(scores)
       THEN /\ phase' = "crashed"
            /\ UNCHANGED best_index
       ELSE /\ best_index' = step3_best_index(scores)
            /\ UNCHANGED phase
  /\ UNCHANGED <<scores, leader_scores, scoreVars, mainVars>>
  /\ UNCHANGED <<doc_reviewer_models, modules, factor, module_idx, pc,
                 call_count, for_idx, review_parsed_list, reviewer_labels,
                 exit_reason, llm_call_index, n_review, n_opt,
                 all_fully_satisfied, pass_models, pass_replied, last_call,
                 last_model, loop_calls_done, cfgVars, alignVars, pureVars>>

\* a score-table entry
Entry(t, c) == [total_score |-> t, issue_count |-> c]

IssueCounts == {0, 1}

\* the score tables enumerated
SmallTables == [1..GENERATE_CANDIDATES -> {Entry(t, c) : t \in 0..MaxTotal, c \in IssueCounts}]

\* {1: (90,2), 2: (90,0), 3: (95,5)}; candidates 4 and 5 rank last
ExampleTableA ==
  <<Entry(90, 2), Entry(90, 0), Entry(95, 5), Entry(0, 9), Entry(0, 9)>>

\* {1: (80,3), 2: (80,1)}; candidates 3 to 5 rank last
ExampleTableB ==
  <<Entry(80, 3), Entry(80, 1), Entry(0, 9), Entry(0, 9), Entry(0, 9)>>

\* a table with a total of one digit more than str() converts
OverlongTable ==
  <<Entry(90, 0), Entry(BigInt(TooManyDigits), 0), Entry(0, 0), Entry(0, 0),
    Entry(0, 0)>>

\* ------------------------------------------------------------------------
\* generate_requirement_leader.py: scoring and choice of the candidates
\* ------------------------------------------------------------------------

\* the match of \{.*?\} with re.DOTALL: from the first "{" to the first "}"
\* after it; the empty text when there is no match
leader_object_match(response) ==
  LET opens == {i \in 1..Len(response) : response[i] = "{"}
  IN IF opens = {} THEN EmptyText
     ELSE LET p == FirstOf(opens)
              closes == {i \in (p + 1)..Len(response) : response[i] = "}"}
          IN IF closes = {} THEN EmptyText
             ELSE SubSeq(response, p, FirstOf(closes))

\* the text t of an int without the whitespace at its ends and its sign
int_text_body(t) ==
  Bind(strip(t), LAMBDA s :
    IF Len(s) > 0 /\ s[1] \in {"+", "-"} THEN Tail(s) ELSE s)

\* int(t) of a str raises ValueError: t is not, between whitespace, an
\* optional sign and decimal digits with single underscores between them, or
\* it has more digits than int() takes
int_text_raises(t) ==
  Bind(int_text_body(t), LAMBDA b :
    \/ Len(b) = 0
    \/ \E i \in 1..Len(b) :
         /\ ~IsDecimal(b[i])
         /\ ~(/\ b[i] = "_"
              /\ i > 1 /\ i < Len(b)
              /\ IsDecimal(b[i - 1]) /\ IsDecimal(b[i + 1]))
    \/ too_many_digits(SelectSeq(b, IsDecimal)))

\* int(t) of a str that int() converts
int_of_text(t) ==
  Bind(strip(t), LAMBDA s :
    Bind(SelectSeq(s, IsDecimal), LAMBDA d :
      py_int(s[1] = "-", trim_zeros([i \in 1..Len(d) |-> decimal_value(d[i])]))))

\* int(str(score_raw).strip()) raises ValueError: the text of a float, a
\* bool, None, a list or a dict is no int
leader_score_raises(score_raw) ==
  CASE score_raw.t \in {"int", "bigint"} -> FALSE
    [] score_raw.t = "str" -> int_text_raises(score_raw.v)
    [] OTHER -> TRUE

\* int(str(score_raw).strip())
leader_score_of(score_raw) ==
  CASE score_raw.t = "int" -> score_raw.v
    [] score_raw.t = "bigint" -> score_raw
    [] OTHER -> int_of_text(score_raw.v)

\* "suggestions"\s*:\s*"([^"]*)" tried at p: whether it matches there, and
\* its group 1
leader_suggestions_at(s, p) ==
  LET colon == skip_space(s, p + Len(KeySuggestions) + 2)
      quote == skip_space(s, colon + 1)
      closes == {e \in (quote + 1)..Len(s) : s[e] = "\""}
  IN IF /\ s[p] = "\""
        /\ starts_with(s, p, <<"\"">> \o KeySuggestions \o <<"\"">>)
        /\ colon <= Len(s) /\ s[colon] = ":"
        /\ quote <= Len(s) /\ s[quote] = "\""
        /\ closes # {}
       THEN [found |-> TRUE, text |-> SubSeq(s, quote + 1, FirstOf(closes) - 1)]
       ELSE [found |-> FALSE, text |-> EmptyText]

\* response.strip()[:500]
LeaderSuggestionsLimit == 500

\* group 1 of the leftmost match, response.strip()[:500] when there is none
leader_fallback_suggestions(s) ==
  LET hits == {p \in 1..Len(s) : s[p] = "\"" /\ leader_suggestions_at(s, p).found}
  IN IF hits = {} THEN first_chars(strip(s), LeaderSuggestionsLimit)
     ELSE leader_suggestions_at(s, FirstOf(hits)).text

\* the dictionary returned for a decoded object
leader_verdict_of_object(data) ==
  [score |-> leader_score_of(dict_get(data, KeyScore, JInt(0))),
   suggestions |-> py_value(dict_get(data, KeySuggestions, JStr(EmptyText)))]

\* the dictionary returned when the try block returned nothing
leader_verdict_of_text(response) ==
  Bind(score_search(response), LAMBDA score_match :
    [score |-> IF score_match = EmptyText THEN 0 ELSE int_of_digits(score_match),
     suggestions |-> leader_fallback_suggestions(response)])

\* parse_review_response of generate_requirement_leader.py: the dictionary
\* it returns, or ValueError when it raises. What the try block raises is
\* caught; the int() of the digits found by the pattern is outside it
leader_parse_review_response(response) ==
  Bind(leader_object_match(response), LAMBDA raw :
    Bind(IF raw = EmptyText THEN [ok |-> FALSE, val |-> JNull]
         ELSE json_loads(raw, ParseFrames), LAMBDA data :
      IF data.ok /\ ~leader_score_raises(dict_get(data.val.v, KeyScore, JInt(0)))
        THEN leader_verdict_of_object(data.val.v)
      ELSE IF too_many_digits(score_search(response)) THEN ValueError
      ELSE leader_verdict_of_text(response)))

\* an entry of "scores" as step2_review builds it
NewLeaderEntry == [total_score |-> 0, suggestions |-> <<>>]

\* f"[{reviewer_display}] {suggestion}"
leader_suggestion_line(display, suggestion) ==
  <<"[">> \o display \o <<"]", " ">> \o py_str(suggestion)

\* scores[i] after the verdict of one call was added
leader_entry_add(entry, parsed, display) ==
  [total_score |-> py_add(entry.total_score, parsed.score),
   suggestions |->
     IF py_truthy(parsed.suggestions)
       THEN Append(entry.suggestions,
                   leader_suggestion_line(display, parsed.suggestions))
       ELSE entry.suggestions]

\* the score of an answer that is, in quotes, the largest number int()
\* converts, and the score that is a number of one digit more
MostDigitsScore == "<most-digits>"
TooManyDigitsScore == "<too-many-digits>"

\* the answers whose score is at the limit of int()
LeaderLimitAnswers ==
  { [failed |-> FALSE, suggestions |-> EmptyText, score |-> <<MostDigitsScore>>],
    [failed |-> FALSE, suggestions |-> EmptyText, score |-> <<TooManyDigitsScore>>] }

\* what a reviewer may answer to the scoring prompt of the leader script:
\* nothing (the call failed), or suggestions and a score, which the prompt
\* asks for as a string
LeaderAnswers ==
  { [failed |-> TRUE,  suggestions |-> EmptyText, score |-> <<"0">>],
    [failed |-> FALSE, suggestions |-> Advice,    score |-> <<"\"", "8", "5", "\"">>],
    [failed |-> FALSE, suggestions |-> EmptyText, score |-> <<"7", "0">>],
    [failed |-> FALSE, suggestions |-> Advice,    score |-> <<"\"", "-", "5", "\"">>],
    [failed |-> FALSE, suggestions |-> EmptyText, score |-> <<"-", "9", "0">>],
    [failed |-> FALSE, suggestions |-> Advice,    score |-> <<"9", ".", "5">>] }

\* the text an answer writes as its score
LeaderScoreText(score) ==
  IF score = <<MostDigitsScore>> THEN json_string(MostDigits)
  ELSE IF score = <<TooManyDigitsScore>> THEN TooManyDigits
  ELSE score

\* the reply in the format the prompt asks for
LeaderReply(a) ==
  <<"{">> \o json_string(KeySuggestions) \o <<":">> \o json_string(a.suggestions)
  \o <<",", " ">> \o json_string(KeyScore) \o <<":">> \o LeaderScoreText(a.score)
  \o <<"}">>

\* what client.chat returns for an answer
LeaderChat(a) == IF a.failed THEN ChatNone ELSE ChatText(LeaderReply(a))

\* parse_review_response(response) for the reply of each answer: the
\* function reads nothing but its argument, so its value for a reply is the
\* same at every call
LeaderVerdicts ==
  [a \in {x \in LeaderAnswers \cup LeaderLimitAnswers : ~x.failed} |->
     leader_parse_review_response(LeaderReply(a))]

\* parsed = parse_review_response(response), for the response to an answer
leader_parsed_reply(a, response) ==
  IF a \in LeaderAnswers \cup LeaderLimitAnswers THEN LeaderVerdicts[a]
  ELSE leader_parse_review_response(response)

\* the answers the calls of one run of the leader script get: every script
\* of the answers above within the bound, and each answer at the limit by
\* itself and in turn with each of the answers above
LeaderScripts ==
  UNION {[1..m -> LeaderAnswers] : m \in 1..MaxScriptLen}
  \cup {<<a>> : a \in LeaderLimitAnswers}
  \cup {<<a, b>> : a \in LeaderLimitAnswers, b \in LeaderAnswers}

\* one iteration of the inner loop of step2_review: one call; when there is
\* a response, its score is added to scores[i] and its suggestions, when
\* there are any, are appended. A ValueError of the parse ends the program.
\* The script has no counter of all calls
Leader_Step2_Review ==
  /\ phase = "leader_step2"
  /\ step2_reviewer_idx <= Len(doc_reviewer_models)
  /\ \E answer \in {ScriptAnswer(step2_call_count + 1)} :
     \E response \in {LeaderChat(answer)} :
       IF ~response.ok \/ ~py_truthy(response.text)
         THEN /\ UNCHANGED <<leader_scores, phase>>
              /\ IF step2_i < LEADER_CANDIDATES
                   THEN /\ step2_i' = step2_i + 1
                        /\ UNCHANGED step2_reviewer_idx
                   ELSE /\ step2_i' = 1
                        /\ step2_reviewer_idx' = step2_reviewer_idx + 1
       ELSE \E parsed \in {leader_parsed_reply(answer, response.text)} :
         IF is_raised(parsed)
           THEN /\ phase' = "crashed"
                /\ UNCHANGED <<leader_scores, step2_i, step2_reviewer_idx>>
         ELSE /\ leader_scores' =
                   [leader_scores EXCEPT ![step2_i] =
                      leader_entry_add(@, parsed,
                        reviewer_display(doc_reviewer_models[step2_reviewer_idx]))]
              /\ UNCHANGED phase
              /\ IF step2_i < LEADER_CANDIDATES
                   THEN /\ step2_i' = step2_i + 1
                        /\ UNCHANGED step2_reviewer_idx
                   ELSE /\ step2_i' = 1
                        /\ step2_reviewer_idx' = step2_reviewer_idx + 1
  /\ step2_call_count' = step2_call_count + 1
  /\ UNCHANGED <<reply_script, step2_scores, scores, best_index, mainVars>>
  /\ UNCHANGED <<doc_reviewer_models, modules, factor, module_idx, pc,
                 call_count, for_idx, review_parsed_list, reviewer_labels,
                 exit_reason, llm_call_index, n_review, n_opt,
                 all_fully_satisfied, pass_models, pass_replied, last_call,
                 last_model, loop_calls_done, cfgVars, alignVars, pureVars>>

\* "return scores": main() goes on to step 3
Leader_Step2_Return ==
  /\ phase = "leader_step2"
  /\ step2_reviewer_idx > Len(doc_reviewer_models)
  /\ phase' = "leader_step3"
  /\ UNCHANGED <<doc_reviewer_models, llm_call_index, cfgVars, loopLocals,
                 alignVars, pureVars, selVars>>

\* total_score of a > total_score of b
leader_key_gt(a, b) == py_less(b.total_score, a.total_score)

\* max(range(1, n + 1), key = ...): the first of the largest
RECURSIVE leader_max(_, _)
leader_max(sc, n) ==
  IF n = 1 THEN 1
  ELSE LET best == leader_max(sc, n - 1) IN
         IF leader_key_gt(sc[n], sc[best]) THEN n ELSE best

\* step3_optimize: best_index
leader_step3_best_index(sc) == leader_max(sc, LEADER_CANDIDATES)

\* the print of the totals formats every total_score
leader_step3_print_raises(sc) ==
  \E i \in 1..LEADER_CANDIDATES : int_str_raises(sc[i].total_score)

\* "\n\n".join(...), and the placeholder "if not all_suggestions.strip()"
leader_all_suggestions(suggestions) ==
  Bind(Join(<<"\n", "\n">>, suggestions), LAMBDA joined :
    IF strip(joined) = EmptyText THEN GenericAdvice ELSE joined)

\* step3_optimize on the scores of step2_review: the print of the totals,
\* the best candidate, its joined suggestions and the one optimize call; a
\* total the print cannot format ends the program before the choice
Leader_Step3_Optimize ==
  /\ phase = "leader_step3"
  /\ IF leader_step3_print_raises(leader_scores)
       THEN /\ phase' = "crashed"
            /\ UNCHANGED step3_call
       ELSE \E best \in {leader_step3_best_index(leader_scores)} :
              /\ step3_call' =
                   [n |-> step3_call.n + 1,
                    model |-> doc_writer_models[1],
                    best_index |-> best,
                    all_suggestions |->
                      leader_all_suggestions(leader_scores[best].suggestions)]
              /\ phase' = "leader_done"
  /\ UNCHANGED <<step1_i, step5_idx, scores, best_index, leader_scores,
                 scoreVars>>
  /\ UNCHANGED <<doc_reviewer_models, modules, factor, module_idx, pc,
                 call_count, for_idx, review_parsed_list, reviewer_labels,
                 exit_reason, llm_call_index, n_review, n_opt,
                 all_fully_satisfied, pass_models, pass_replied, last_call,
                 last_model, loop_calls_done, cfgVars, alignVars, pureVars>>

\* ------------------------------------------------------------------------
\* Steps 1, 3, 4 and 5 of main()
\* ------------------------------------------------------------------------

\* step 1, one iteration of the loop: one call, whose reply is not read
Step1_Generate ==
  /\ phase = "step1"
  /\ step1_i <= GENERATE_CANDIDATES
  /\ step1_i' = step1_i + 1
  /\ llm_call_index' = llm_call_index + 1
  /\ UNCHANGED <<step3_call, step5_idx, scores, best_index, leader_scores,
                 scoreVars>>
  /\ UNCHANGED <<doc_reviewer_models, phase, cfgVars, loopLocals, alignVars,
                 pureVars>>

\* step1_generate_overall returns: main() goes on to step 2
Step1_Return ==
  /\ phase = "step1"
  /\ step1_i > GENERATE_CANDIDATES
  /\ phase' = "step2"
  /\ UNCHANGED <<doc_reviewer_models, llm_call_index, cfgVars, loopLocals,
                 alignVars, pureVars, selVars>>

\* no optimize call of step 3 was made
NoStep3Call ==
  [n |-> 0, model |-> None, best_index |-> 0, all_suggestions |-> EmptyText]

\* "if not all_suggestions: all_suggestions = <placeholder>"
step3_all_suggestions(merged) ==
  IF merged = EmptyText THEN GenericAdvice ELSE merged

\* "optimize_model = doc_writer_models[0]"
step3_optimize_model == doc_writer_models[1]

\* step 3 on the scores of step 2: the log of the totals, the best
\* candidate, its merged feedback, and the one optimize call, after which
\* main() goes on to step 4. A total the log of lines 351-352 cannot format
\* raises ValueError, and a feedback that cannot be merged TypeError: the
\* program ends before the call
Step3_Optimize ==
  /\ phase = "step3"
  /\ IF step3_log_raises(step2_scores)
       THEN /\ phase' = "crashed"
            /\ UNCHANGED <<step3_call, llm_call_index>>
       ELSE \E best \in {step3_best_index(step2_scores)} :
            \E merged \in {merge_suggestions_from_parsed(
                             step2_scores[best].suggestions_by_model,
                             step2_scores[best].labels)} :
              IF merged = RaisedTypeError
                THEN /\ phase' = "crashed"
                     /\ UNCHANGED <<step3_call, llm_call_index>>
                ELSE /\ step3_call' =
                          [n |-> step3_call.n + 1,
                           model |-> step3_optimize_model,
                           best_index |-> best,
                           all_suggestions |-> step3_all_suggestions(merged)]
                     /\ llm_call_index' = llm_call_index + 1
                     /\ phase' = "step4"
  /\ UNCHANGED <<step1_i, step5_idx, scores, best_index, leader_scores,
                 scoreVars>>
  /\ UNCHANGED <<doc_reviewer_models, cfgVars, loopLocals, alignVars, pureVars>>

\* the brackets of the fallback pattern of step 4 besides the double quote
CornerOpen == "<corner-open>"
CornerClose == "<corner-close>"
WhiteCornerOpen == "<white-corner-open>"
WhiteCornerClose == "<white-corner-close>"
LenticularOpen == "<lenticular-open>"
LenticularClose == "<lenticular-close>"

\* the three character classes of the fallback pattern
QuoteOpeners == {"\"", CornerOpen, WhiteCornerOpen, LenticularOpen}
QuoteBodyExcluded == {"\"", CornerOpen, WhiteCornerClose, LenticularClose, "\n"}
QuoteClosers == {"\"", CornerClose, WhiteCornerClose, LenticularClose}

\* re.search(r'\[.*?\]', response, re.DOTALL): the first "[" up to the first
\* "]" after it; the empty text when there is no match
step4_list_match(response) ==
  LET opens == {i \in 1..Len(response) : response[i] = "["}
  IN IF opens = {} THEN EmptyText
     ELSE LET p == FirstOf(opens)
              closes == {i \in (p + 1)..Len(response) : response[i] = "]"}
          IN IF closes = {} THEN EmptyText
             ELSE SubSeq(response, p, FirstOf(closes))

\* the match of the fallback pattern that starts at p: the position of its
\* closing character, 0 when there is none. The body is as long as it can
\* be: at least one character, none of them excluded.
quoted_match_end(s, p) ==
  IF s[p] \notin QuoteOpeners THEN 0
  ELSE LET ends == {e \in (p + 2)..Len(s) :
                      /\ s[e] \in QuoteClosers
                      /\ \A k \in (p + 1)..(e - 1) : s[k] \notin QuoteBodyExcluded}
       IN IF ends = {} THEN 0 ELSE LastOf(ends)

\* re.findall of the fallback pattern from position p on
RECURSIVE findall_quoted(_, _, _)
findall_quoted(s, p, acc) ==
  IF p > Len(s) THEN acc
  ELSE Bind(quoted_match_end(s, p), LAMBDA e :
         IF e = 0 THEN findall_quoted(s, p + 1, acc)
         ELSE findall_quoted(s, e + 1, Append(acc, SubSeq(s, p + 1, e - 1))))

\* json.loads of the matched list, [] when there is no match or it raises
step4_json_modules(response) ==
  Bind(step4_list_match(response), LAMBDA raw :
    IF raw = EmptyText THEN <<>>
    ELSE Bind(json_loads(replace_quotes(raw), Step4Frames), LAMBDA loaded :
           IF loaded.ok THEN py_value(loaded.val) ELSE <<>>))

\* lines 423-441: the module list of a response, [] when nothing is found
step4_modules(response) ==
  IF response = EmptyText THEN <<>>
  ELSE Bind(step4_json_modules(response), LAMBDA first :
         IF first # <<>> THEN first ELSE findall_quoted(response, 1, <<>>))

\* a reply that lists the first m module names as a JSON list
ModuleListReply(m) ==
  json_string_list([i \in 1..m |-> <<ModuleNames[i]>>])

\* what client.chat may return to step 4
Step4ChatResults ==
  {ChatNone, ChatEmpty}
  \cup {ChatText(ModuleListReply(m)) : m \in 0..MaxModules}
  \cup {ChatText(<<"n", "o">>),
        ChatText(<<"[", "'", ModuleNames[1], "'", "]">>),
        ChatText(<<"a", " ", "\"", ModuleNames[1], "\"">>),
        ChatText(<<CornerOpen, ModuleNames[1], CornerClose>>),
        ChatText(<<"[", "\"", ModuleNames[1], "\"", ",", "]">>),
        ChatText(<<"[", "1", ",", " ", "2", "]">>)}

\* Step4_GetModules without the "if not modules: return" of main()
Step4_GetModules_NoReturn(chat) ==
  /\ phase = "step4"
  /\ modules' = step4_modules(llm_call_result(chat))
  /\ llm_call_index' = llm_call_index + 1
  /\ phase' = "step5"
  /\ UNCHANGED <<factor, module_idx, pc, call_count, for_idx,
                 review_parsed_list, reviewer_labels, exit_reason, n_review,
                 n_opt, all_fully_satisfied, pass_models, pass_replied,
                 last_call, last_model, loop_calls_done>>
  /\ UNCHANGED <<doc_reviewer_models, cfgVars, alignVars, pureVars, selVars>>

\* step 4: one call; main() stops when the list is empty and goes on to
\* step 5 otherwise
Step4_GetModules(chat) ==
  /\ phase = "step4"
  /\ modules' = step4_modules(llm_call_result(chat))
  /\ llm_call_index' = llm_call_index + 1
  /\ phase' = IF modules' = <<>> THEN "aborted" ELSE "step5"
  /\ UNCHANGED <<factor, module_idx, pc, call_count, for_idx,
                 review_parsed_list, reviewer_labels, exit_reason, n_review,
                 n_opt, all_fully_satisfied, pass_models, pass_replied,
                 last_call, last_model, loop_calls_done>>
  /\ UNCHANGED <<doc_reviewer_models, cfgVars, alignVars, pureVars, selVars>>

\* step 5, one iteration of the loop: one call, whose reply is not read
Step5_Generate ==
  /\ phase = "step5"
  /\ step5_idx <= Len(modules)
  /\ step5_idx' = step5_idx + 1
  /\ llm_call_index' = llm_call_index + 1
  /\ UNCHANGED <<step1_i, step3_call, scores, best_index, leader_scores,
                 scoreVars>>
  /\ UNCHANGED <<doc_reviewer_models, phase, cfgVars, loopLocals, alignVars,
                 pureVars>>

\* step5_generate_module_docs returns: main() goes on to step 6
Step5_Return ==
  /\ phase = "step5"
  /\ step5_idx > Len(modules)
  /\ phase' = "step6"
  /\ UNCHANGED <<doc_reviewer_models, llm_call_index, cfgVars, loopLocals,
                 alignVars, pureVars, selVars>>

\* ------------------------------------------------------------------------
\* Initial states and specifications
\* ------------------------------------------------------------------------

ParseIdle ==
  /\ parse_in = EmptyText
  /\ parse_out = [status |-> "not_called", value |-> DefaultVerdict]
  /\ parse_types = DefaultTypes

PureIdle ==
  /\ in_parsed = <<>>
  /\ in_labels = <<>>
  /\ out_satisfied = [called |-> FALSE, value |-> PyFalse]
  /\ out_merged = [status |-> "not_called", value |-> EmptyText]
  /\ ParseIdle

ScoreIdle ==
  /\ reply_script = <<>>
  /\ step2_scores = [i \in 1..GENERATE_CANDIDATES |-> NewScoreEntry]
  /\ step2_reviewer_idx = 1
  /\ step2_i = 1
  /\ step2_call_count = 0

\* steps 1, 3, 4 and 5 have not run
MainIdle ==
  /\ step1_i = 1
  /\ step3_call = NoStep3Call
  /\ step5_idx = 1

SelIdle ==
  /\ scores = [i \in 1..GENERATE_CANDIDATES |-> Entry(0, 0)]
  /\ best_index = 0
  /\ leader_scores = [i \in 1..LEADER_CANDIDATES |-> NewLeaderEntry]
  /\ ScoreIdle
  /\ MainIdle

AlignIdle ==
  /\ align_i = 1
  /\ previous_round_summary = EmptyText
  /\ n_align = 0
  /\ align_models = <<>>
  /\ last_response = EmptyText
  /\ prev_response = EmptyText
  /\ last_prev_context = EmptyText

\* no loop is running: the locals of the loops at their first values
LoopRest(ph) ==
  /\ AlignIdle
  /\ pass_models = <<>>
  /\ pass_replied = <<>>
  /\ last_call = "none"
  /\ last_model = None
  /\ loop_calls_done = 0
  /\ modules = <<>>
  /\ factor = REVIEW_OPTIMIZE_FACTOR
  /\ phase = ph
  /\ module_idx = 1
  /\ pc = "while"
  /\ call_count = 0
  /\ for_idx = 1
  /\ review_parsed_list = <<>>
  /\ reviewer_labels = <<>>
  /\ exit_reason = "none"
  /\ n_review = 0
  /\ n_opt = 0
  /\ all_fully_satisfied = TRUE

\* a function is applied outside main(): there is no agents_config.yaml, for
\* which load_config returns {}, and the lists are the default ones
LoopIdle(ph) ==
  /\ config = JDict(<<>>)
  /\ doc_writer_models = <<None>>
  /\ doc_reviewer_models = <<None>>
  /\ llm_call_index = 0
  /\ LoopRest(ph)

\* what the loop has reported when it ended: the three breaks log that the
\* reviewers are satisfied (lines 650, 833), that there is no usable advice
\* (655, 838) and that the call limit is reached (660, 843); a loop that the
\* while test ends logs nothing, and a running loop has reported nothing yet
Outcome ==
  CASE exit_reason = "converged"    -> "CONVERGED"
    [] exit_reason = "no_feedback"  -> "NO_FEEDBACK"
    [] exit_reason = "budget_break" -> "BUDGET_EXHAUSTED"
    [] exit_reason = "while_exit"   -> "UNREPORTED"
    [] OTHER                        -> "REVIEWING"

\* the budget of the loop that is running
Budget == IF phase = "step6" THEN max_calls_per_module ELSE max_calls

\* one section of agents_config.yaml: "models:" with the value given
ModelsSection(models) == JDict(<<[k |-> KeyModels, v |-> models]>>)

\* agents_config.yaml with the two sections main() reads
ModelsConfig(writers, reviewers) ==
  JDict(<<[k |-> KeyAgents,
           v |-> JDict(<<[k |-> KeyWriter, v |-> ModelsSection(writers)],
                         [k |-> KeyReviewer, v |-> ModelsSection(reviewers)]>>)]>>)

\* agents_config.yaml names the same models, MaxReviewers at most, for both
\* roles
SameModelsConfig ==
  \E n \in 0..MaxReviewers :
    config = ModelsConfig(SubSeq(ModelNames, 1, n), SubSeq(ModelNames, 1, n))

\* agents_config.yaml names at most one reviewer, which may be the empty
\* string, and, apart from it, up to MaxWriters writers, or has "models:"
\* without a value, which yaml loads as None
FewReviewersConfig ==
  \E r \in {SubSeq(ModelNames, 1, n) : n \in 0..1} \cup {<<"">>} :
    \/ \E n \in 0..MaxWriters : config = ModelsConfig(SubSeq(ModelNames, 1, n), r)
    \/ config = ModelsConfig(None, r)

\* main() has read the configuration without an exception: the lists it
\* hands to the steps
ListsOfConfig ==
  /\ doc_writer_models = models_or_default(config_models(config, KeyWriter))
  /\ doc_reviewer_models = models_or_default(config_models(config, KeyReviewer))

\* what _llm_call_index holds when main() calls step 2: step 1 has issued one
\* call for each candidate, whatever the writers are and whether or not the
\* calls were answered
calls_before_step2 == GENERATE_CANDIDATES

\* what _llm_call_index holds when main() calls step 6: the calls of steps 1
\* to 5, one for each candidate, one for each reviewer and candidate, the
\* optimize call, the call for the module list and one for each module
calls_before_step6 ==
  GENERATE_CANDIDATES + Len(doc_reviewer_models) * GENERATE_CANDIDATES + 1 + 1
  + Len(modules)

\* main() calls step6_review_optimize_module: steps 1 to 5 have returned,
\* their locals are gone, step 4 has left a module list that is not empty,
\* and the calls of these steps are counted
LoopInit ==
  /\ AlignIdle
  /\ ListsOfConfig
  /\ pass_models = <<>>
  /\ pass_replied = <<>>
  /\ last_call = "none"
  /\ last_model = None
  /\ loop_calls_done = 0
  /\ modules \in {SubSeq(ModuleNames, 1, m) : m \in 1..MaxModules}
  /\ factor = REVIEW_OPTIMIZE_FACTOR
  /\ phase = "step6"
  /\ module_idx = 1
  /\ pc = "while"
  /\ call_count = 0
  /\ for_idx = 1
  /\ review_parsed_list = <<>>
  /\ reviewer_labels = <<>>
  /\ exit_reason = "none"
  /\ llm_call_index = calls_before_step6
  /\ n_review = 0
  /\ n_opt = 0
  /\ all_fully_satisfied = TRUE

LoopNext ==
  \/ Step6_While
  \/ \E chat \in ReviewChatResults : Step6_Review(chat)
  \/ Step6_Judge
  \/ \E chat \in ChatResults : Step6_Optimize(chat)
  \/ Step6_ModuleDone
  \/ \E chat \in AlignChatResults : Step71_Round(chat)
  \/ Step71_Return
  \/ Step72_While
  \/ \E chat \in ReviewChatResults : Step72_Review(chat)
  \/ Step72_Judge
  \/ \E chat \in ChatResults : Step72_Optimize(chat)
  \/ Step72_Return

\* main() from its call of step 6 on, for the configurations that name the
\* same models for both roles
Init == SameModelsConfig /\ LoopInit /\ PureIdle /\ SelIdle

Next == LoopNext

Spec == Init /\ [][Next]_vars

\* main() from its call of step 6 on, for the configurations whose writer
\* list is chosen apart from the reviewer list
WritersInit == FewReviewersConfig /\ LoopInit /\ PureIdle /\ SelIdle

SpecWriters == WritersInit /\ [][Next]_vars

\* is_all_satisfied and merge_suggestions_from_parsed on every verdict list
\* and label list within the bounds
PureInit ==
  /\ LoopIdle("pure") /\ SelIdle /\ ParseIdle
  /\ \E pick \in SeqUpTo(1..Len(PureVerdicts), MaxVerdicts) :
       in_parsed = [i \in 1..Len(pick) |-> PureVerdicts[pick[i]]]
  /\ in_labels \in SeqUpTo(LabelTexts, MaxLabels)
  /\ out_satisfied = [called |-> FALSE, value |-> PyFalse]
  /\ out_merged = [status |-> "not_called", value |-> EmptyText]

PureNext ==
  \/ Call_is_all_satisfied
  \/ Call_merge_suggestions_from_parsed

SpecPure == PureInit /\ [][PureNext]_vars

\* the two functions on enumerated arguments, and the program that calls
\* them in its loops
SpecLoopsAndPure == (Init \/ PureInit) /\ [][Next \/ PureNext]_vars

\* parse_review_response on every text of ParseTexts
ParseInit ==
  /\ LoopIdle("parse") /\ SelIdle
  /\ in_parsed = <<>>
  /\ in_labels = <<>>
  /\ out_satisfied = [called |-> FALSE, value |-> PyFalse]
  /\ out_merged = [status |-> "not_called", value |-> EmptyText]
  /\ parse_in \in ParseTexts
  /\ parse_out = [status |-> "not_called", value |-> DefaultVerdict]
  /\ parse_types = DefaultTypes

ParseNext == Call_parse_review_response

SpecParse == ParseInit /\ [][ParseNext]_vars

\* the score tables the selection is applied to: the enumerated ones, the
\* two examples and the one with an overlong total, picked by its place
SelectTables == <<ExampleTableA, ExampleTableB, OverlongTable>>

\* lines 351-354 of step 3 on every such table
SelectInit ==
  /\ LoopIdle("select") /\ PureIdle
  /\ \/ scores \in SmallTables
     \/ \E k \in 1..Len(SelectTables) : scores = SelectTables[k]
  /\ best_index = 0
  /\ leader_scores = [i \in 1..LEADER_CANDIDATES |-> NewLeaderEntry]
  /\ ScoreIdle
  /\ MainIdle

SelectNext == Step3_SelectBest

SpecSelect == SelectInit /\ [][SelectNext]_vars

\* main() calls step2_review_overall: step 1 has returned and its calls are
\* counted
ScoreInit ==
  /\ SameModelsConfig /\ ListsOfConfig
  /\ LoopRest("step2") /\ PureIdle
  /\ llm_call_index = calls_before_step2
  /\ scores = [i \in 1..GENERATE_CANDIDATES |-> Entry(0, 0)]
  /\ best_index = 0
  /\ leader_scores = [i \in 1..LEADER_CANDIDATES |-> NewLeaderEntry]
  /\ reply_script \in ReplyScripts
  /\ step2_scores = [i \in 1..GENERATE_CANDIDATES |-> NewScoreEntry]
  /\ step2_reviewer_idx = 1
  /\ step2_i = 1
  /\ step2_call_count = 0
  /\ MainIdle

ScoreNext ==
  \/ Step2_Review
  \/ Step2_Return

SpecScore == ScoreInit /\ [][ScoreNext]_vars

\* two reviewers answer so that candidates 2 and 4 get the same scores and
\* the same numbers of issues in opposite orders, and more than the others
TieScript ==
  LET a(n, k) == CHOOSE x \in ScoreAnswers :
                   ~x.failed /\ x.score = n /\ x.issues = k
      failed == CHOOSE x \in ScoreAnswers : x.failed
  IN <<a(40, <<IssueX, IssueY>>), a(85, <<>>), a(40, <<IssueX, IssueY>>),
       a(70, <<IssueX>>), failed,
       a(40, <<IssueX, IssueY>>), a(70, <<IssueX>>), failed,
       a(85, <<>>), a(85, <<>>)>>

\* one reviewer gives scores below zero to every candidate of the leader
\* script, the highest of them to candidates 3 and 5
LeaderTieScript ==
  LET a(t) == CHOOSE x \in LeaderAnswers : ~x.failed /\ x.score = t
  IN <<a(<<"-", "9", "0">>), a(<<"-", "9", "0">>), a(<<"\"", "-", "5", "\"">>),
       a(<<"-", "9", "0">>), a(<<"\"", "-", "5", "\"">>)>>

\* step 2 and step 3 of generate_design.py, and of
\* generate_requirement_leader.py, from the call of step 2 on: the reviewers
\* main() can hand over and every reply script within the bound. In
\* generate_design.py the calls of step 1 are counted by then; the leader
\* script keeps no count of its calls, and the counter stays at 0 there
RankInit ==
  /\ SameModelsConfig /\ ListsOfConfig
  /\ PureIdle
  /\ scores = [i \in 1..GENERATE_CANDIDATES |-> Entry(0, 0)]
  /\ best_index = 0
  /\ leader_scores = [i \in 1..LEADER_CANDIDATES |-> NewLeaderEntry]
  /\ step2_scores = [i \in 1..GENERATE_CANDIDATES |-> NewScoreEntry]
  /\ step2_reviewer_idx = 1
  /\ step2_i = 1
  /\ step2_call_count = 0
  /\ MainIdle
  /\ \/ /\ LoopRest("step2")
        /\ llm_call_index = calls_before_step2
        /\ reply_script \in ReplyScripts \cup {TieScript}
     \/ /\ LoopRest("leader_step2")
        /\ llm_call_index = 0
        /\ reply_script \in LeaderScripts \cup {LeaderTieScript}

RankNext ==
  \/ Step2_Review
  \/ Step2_Return
  \/ Step3_Optimize
  \/ Leader_Step2_Review
  \/ Leader_Step2_Return
  \/ Leader_Step3_Optimize

SpecRank == RankInit /\ [][RankNext]_vars

\* an answer whose score has as many digits as int() converts
MostDigitsAnswer ==
  [failed |-> FALSE, issues |-> <<>>, suggestions |-> EmptyText, score |-> -2]

\* the replies of step 2 in a run of the whole of main(): every call fails,
\* or names two issues and gives advice, or has null for its issues, or
\* gives a score of more digits than int() converts, or of as many
MainScripts ==
  {<<a>> : a \in {x \in ScoreAnswers :
                    \/ x.failed
                    \/ Len(x.issues) = 2
                    \/ x.issues = <<NullIssues>>
                    \/ x.score = -1}
                 \cup {MostDigitsAnswer}}

\* the replies of the reviewers in a run of the whole of main(): the call
\* fails, the reviewer is satisfied, or names an issue and gives advice, or
\* has null for its issues, or gives a score of more digits than int()
\* converts
MainChatResults ==
  {ChatNone}
  \cup {ChatJson(v) : v \in {x \in LoopVerdicts :
                               \/ x.satisfied = PyTrue /\ x.issues = <<>>
                               \/ x.issues # <<>> /\ x.suggestions # EmptyText}}
  \cup {ChatText(NullIssuesText), ChatText(ScoreLineText(TooManyDigits))}

\* what load_config may return: None for an empty file, {} when there is no
\* file, the agents section, the writer section or the reviewer section
\* without a value, a writer section without the key models and no reviewer
\* section, and the same models, MaxReviewers at most, for both roles
MainConfigs ==
  <<JNull,
    JDict(<<>>),
    JDict(<<[k |-> KeyAgents, v |-> JNull]>>),
    JDict(<<[k |-> KeyAgents,
             v |-> JDict(<<[k |-> KeyWriter, v |-> JNull],
                           [k |-> KeyReviewer, v |-> ModelsSection(<<"gpt">>)]>>)]>>),
    JDict(<<[k |-> KeyAgents,
             v |-> JDict(<<[k |-> KeyWriter, v |-> ModelsSection(<<"gpt">>)],
                           [k |-> KeyReviewer, v |-> JNull]>>)]>>),
    JDict(<<[k |-> KeyAgents,
             v |-> JDict(<<[k |-> KeyWriter, v |-> JDict(<<>>)]>>)]>>)>>
  \o [n \in 1..(MaxReviewers + 1) |->
        ModelsConfig(SubSeq(ModelNames, 1, n - 1), SubSeq(ModelNames, 1, n - 1))]

\* main() from its first statement: nothing has run, no module is known
MainInit ==
  /\ \E k \in 1..Len(MainConfigs) : config = MainConfigs[k]
  /\ AlignIdle
  /\ doc_reviewer_models = <<>>
  /\ doc_writer_models = <<>>
  /\ pass_models = <<>>
  /\ pass_replied = <<>>
  /\ last_call = "none"
  /\ last_model = None
  /\ loop_calls_done = 0
  /\ modules = <<>>
  /\ factor = REVIEW_OPTIMIZE_FACTOR
  /\ phase = "config"
  /\ module_idx = 1
  /\ pc = "while"
  /\ call_count = 0
  /\ for_idx = 1
  /\ review_parsed_list = <<>>
  /\ reviewer_labels = <<>>
  /\ exit_reason = "none"
  /\ llm_call_index = 0
  /\ n_review = 0
  /\ n_opt = 0
  /\ all_fully_satisfied = TRUE
  /\ PureIdle
  /\ scores = [i \in 1..GENERATE_CANDIDATES |-> Entry(0, 0)]
  /\ best_index = 0
  /\ leader_scores = [i \in 1..LEADER_CANDIDATES |-> NewLeaderEntry]
  /\ reply_script \in MainScripts
  /\ step2_scores = [i \in 1..GENERATE_CANDIDATES |-> NewScoreEntry]
  /\ step2_reviewer_idx = 1
  /\ step2_i = 1
  /\ step2_call_count = 0
  /\ MainIdle

MainNext ==
  \/ Main_Start
  \/ Step1_Generate
  \/ Step1_Return
  \/ Step2_Review
  \/ Step2_Return
  \/ Step3_Optimize
  \/ \E chat \in Step4ChatResults : Step4_GetModules(chat)
  \/ Step5_Generate
  \/ Step5_Return
  \/ Step6_While
  \/ \E chat \in MainChatResults : Step6_Review(chat)
  \/ Step6_Judge
  \/ \E chat \in MainChatResults : Step6_Optimize(chat)
  \/ Step6_ModuleDone
  \/ \E chat \in AlignChatResults : Step71_Round(chat)
  \/ Step71_Return
  \/ Step72_While
  \/ \E chat \in MainChatResults : Step72_Review(chat)
  \/ Step72_Judge
  \/ \E chat \in MainChatResults : Step72_Optimize(chat)
  \/ Step72_Return

\* main() as a whole
SpecMain == MainInit /\ [][MainNext]_vars

\* ------------------------------------------------------------------------
\* Claims about the refinement loops
\* ------------------------------------------------------------------------

LoopPhases == {"step6", "step72", "done"}

TerminalOutcomes == {"CONVERGED", "NO_FEEDBACK", "BUDGET_EXHAUSTED"}

\* C1: in every state of a review/optimize loop the calls it has issued,
\* review calls plus optimize calls over all rounds, are what call_count
\* holds, and they are at most (len(doc_reviewer_models) + 1) *
\* REVIEW_OPTIMIZE_FACTOR.
C1_CallsWithinBudget ==
  phase \in LoopPhases =>
    /\ call_count = n_review + n_opt
    /\ n_review + n_opt <= (Len(doc_reviewer_models) + 1) * REVIEW_OPTIMIZE_FACTOR
    /\ Budget = (Len(doc_reviewer_models) + 1) * REVIEW_OPTIMIZE_FACTOR

\* the global loop has spent its whole budget over several rounds, after
\* the module loops ran
C1_Witness ==
  /\ phase = "step72"
  /\ call_count = (Len(doc_reviewer_models) + 1) * REVIEW_OPTIMIZE_FACTOR
  /\ n_opt = REVIEW_OPTIMIZE_FACTOR
  /\ llm_call_index > call_count

\* C2: when every reviewer returns satisfied = true with no issues, the loop
\* ends CONVERGED after one pass: exactly len(doc_reviewer_models) review
\* calls and no optimize call.
C2_AllSatisfiedConvergesInOnePass ==
  (phase \in LoopPhases /\ all_fully_satisfied) =>
    /\ n_opt = 0
    /\ n_review <= Len(doc_reviewer_models)
    /\ pc \in {"while", "for", "exited"}
    /\ pc = "exited" =>
         /\ Outcome = "CONVERGED"
         /\ n_review = Len(doc_reviewer_models)
    /\ (pc = "while" => n_review = 0)

C2_Witness ==
  /\ phase = "step72"
  /\ pc = "exited"
  /\ all_fully_satisfied
  /\ Len(doc_reviewer_models) = 2
  /\ n_review = 2
  /\ Outcome = "CONVERGED"

\* the loop was ended by its while test with no call left in the budget:
\* the budget is exhausted, though no line of the log says so
BudgetUsedUp == exit_reason = "while_exit" /\ call_count >= Budget

\* C4 as claimed: whatever the reviewers answer, a loop stops only in one of
\* its outcomes: once it runs no further statement, whether it left its
\* while loop or an exception ended the program inside it, it is in
\* CONVERGED, NO_FEEDBACK or BUDGET_EXHAUSTED (reported, or reached by the
\* while test).
C4_LoopTerminates ==
  (pc = "exited" \/ phase = "crashed") =>
    (pc = "exited" /\ (Outcome \in TerminalOutcomes \/ BudgetUsedUp))


\* ------------------------------------------------------------------------
\* Claims about is_all_satisfied and merge_suggestions_from_parsed
\* ------------------------------------------------------------------------

\* text sub occurs in text t
Contains(t, sub) ==
  \E a \in 0..(Len(t) - Len(sub)) : SubSeq(t, a + 1, a + Len(sub)) = sub

\* the pairs zip(in_labels, in_parsed) yields
ZipRange ==
  1..(IF Len(in_labels) < Len(in_parsed) THEN Len(in_labels) ELSE Len(in_parsed))

\* the issues of the verdict are a list, and it is empty
EmptyIssueList(v) == type_of(v.issues) \in {"str", "list"} /\ Len(v.issues) = 0

\* the issues of the verdict are a list of strings and its suggestions are a
\* string
WellFormedVerdict(v) ==
  /\ type_of(v.issues) \in {"str", "list"}
  /\ type_of(v.suggestions) = "str"

\* C5: is_all_satisfied(verdicts) is true exactly when every verdict has
\* satisfied = true and an empty issue list; it is true for the empty list.
C5_IsAllSatisfiedIff ==
  out_satisfied.called =>
    /\ out_satisfied.value = PyTrue <=>
         (\A i \in 1..Len(in_parsed) :
             in_parsed[i].satisfied = PyTrue /\ EmptyIssueList(in_parsed[i]))
    /\ in_parsed = <<>> => out_satisfied.value = PyTrue

\* a list of two verdicts, both satisfied with no issues, was judged
C5_Witness ==
  /\ out_satisfied.called
  /\ Len(in_parsed) = 2
  /\ in_parsed[1].satisfied = PyTrue /\ in_parsed[1].issues = <<>>
  /\ in_parsed[2].satisfied = PyTrue /\ in_parsed[2].issues = <<>>
  /\ out_satisfied.value = PyTrue

\* C6: among verdicts whose issues are lists and whose suggestions are
\* strings, a verdict with issues counts as unsatisfied whatever its flag
\* says: is_all_satisfied is false for a list that holds one, and
\* merge_suggestions_from_parsed puts its issues, under its label, in the
\* merged text.
C6_IssuesOverrideFlag ==
  /\ (/\ out_satisfied.called
      /\ \A i \in 1..Len(in_parsed) : WellFormedVerdict(in_parsed[i])) =>
       \A i \in 1..Len(in_parsed) :
          in_parsed[i].issues # <<>> => out_satisfied.value = PyFalse
  /\ (/\ out_merged.status # "not_called"
      /\ \A i \in 1..Len(in_parsed) : WellFormedVerdict(in_parsed[i])) =>
       /\ out_merged.status = "returned"
       /\ \A i \in ZipRange :
            in_parsed[i].issues # <<>> =>
              /\ out_merged.value # EmptyText
              /\ Contains(out_merged.value,
                   <<"[">> \o in_labels[i] \o <<"]", " ", "<issues-heading>", "\n",
                     " ", " ", "-", " ">> \o in_parsed[i].issues[1])

\* [{satisfied:true, issues:[]}, {satisfied:true, issues:["x"]}] was judged
\* and merged
C6_Witness ==
  /\ out_satisfied.called
  /\ out_merged.status = "returned"
  /\ Len(in_parsed) = 2 /\ Len(in_labels) = 2
  /\ in_parsed[1].satisfied = PyTrue /\ in_parsed[1].issues = <<>>
  /\ in_parsed[2].satisfied = PyTrue /\ in_parsed[2].issues = <<IssueX>>
  /\ out_satisfied.value = PyFalse
  /\ out_merged.value # EmptyText

\* the lines of an issue list, one "  - issue" line per issue
RECURSIVE IssueLines(_)
IssueLines(issues) ==
  IF issues = <<>> THEN EmptyText
  ELSE <<" ", " ", "-", " ">> \o Head(issues)
       \o (IF Len(issues) > 1 THEN <<"\n">> ELSE EmptyText)
       \o IssueLines(Tail(issues))

\* the blocks pair i is to give: none when the verdict is satisfied with no
\* issues, else its issues block (if it has issues) and then its suggestions
\* block (if it has suggestions), both under label i
ExpectedBlocks(i) ==
  LET v == in_parsed[i]
      tag == <<"[">> \o in_labels[i] \o <<"]", " ">>
  IN IF v.satisfied = PyTrue /\ v.issues = <<>> THEN <<>>
     ELSE (IF v.issues # <<>>
             THEN << tag \o <<"<issues-heading>", "\n">> \o IssueLines(v.issues) >>
             ELSE <<>>)
          \o (IF v.suggestions # EmptyText
                THEN << tag \o <<"<advice-heading>">> \o v.suggestions >>
                ELSE <<>>)

\* the blocks of pairs i..m, in input order, a blank line between two blocks
RECURSIVE ExpectedText(_, _)
ExpectedText(i, m) ==
  IF i > m THEN EmptyText
  ELSE LET here == ExpectedBlocks(i)
           rest == ExpectedText(i + 1, m)
           mine == IF Len(here) = 0 THEN EmptyText
                   ELSE IF Len(here) = 1 THEN here[1]
                   ELSE here[1] \o <<"\n", "\n">> \o here[2]
       IN IF mine = EmptyText THEN rest
          ELSE IF rest = EmptyText THEN mine
          ELSE mine \o <<"\n", "\n">> \o rest

\* C7: given verdicts whose issues are lists and whose suggestions are
\* strings, merge_suggestions_from_parsed skips the pairs whose verdict is
\* satisfied with no issues, gives for every other pair, in input order, its
\* issues block and then its suggestions block under the pair's label, and
\* returns the empty string when every verdict was skipped.
C7_MergeBlocks ==
  (/\ out_merged.status # "not_called"
   /\ \A i \in 1..Len(in_parsed) : WellFormedVerdict(in_parsed[i])) =>
    /\ out_merged.status = "returned"
    /\ out_merged.value =
         ExpectedText(1, IF Len(in_labels) < Len(in_parsed)
                           THEN Len(in_labels) ELSE Len(in_parsed))
    /\ (\A i \in ZipRange : in_parsed[i].satisfied = PyTrue /\ in_parsed[i].issues = <<>>)
         => out_merged.value = EmptyText

\* a skipped pair followed by a pair that gave both blocks
C7_Witness ==
  /\ out_merged.status = "returned"
  /\ Len(in_parsed) = 2 /\ Len(in_labels) = 2
  /\ in_parsed[1].satisfied = PyTrue /\ in_parsed[1].issues = <<>>
  /\ in_parsed[1].suggestions = Advice
  /\ in_parsed[2].satisfied = PyFalse /\ in_parsed[2].issues = <<IssueX, IssueY>>
  /\ in_parsed[2].suggestions = Advice
  /\ in_labels[1] # in_labels[2]
  /\ out_merged.value =
       <<"[">> \o in_labels[2] \o
       <<"]", " ", "<issues-heading>", "\n", " ", " ", "-", " ", "x", "\n",
         " ", " ", "-", " ", "y", "\n", "\n", "[">> \o in_labels[2] \o
       <<"]", " ", "<advice-heading>", "s">>

\* C8: merge_suggestions_from_parsed given a verdict list and a label list of
\* different lengths is rejected; it does not return a merged string.
C8_MismatchRejected ==
  (out_merged.status # "not_called" /\ Len(in_parsed) # Len(in_labels)) =>
     out_merged.status = "raised"

\* ------------------------------------------------------------------------
\* Claims about the candidate selection
\* ------------------------------------------------------------------------

Candidates == 1..GENERATE_CANDIDATES

\* C9: the candidate step3_optimize_overall chooses has the largest total_score
\* and, among those with that total_score, the smallest issue_count;
\* {1:(90,2), 2:(90,0), 3:(95,5)} gives 3 and {1:(80,3), 2:(80,1)} gives 2.
C9_BestIsMaxScoreMinIssues ==
  best_index # 0 =>
    /\ best_index \in Candidates
    /\ \A j \in Candidates : scores[j].total_score <= scores[best_index].total_score
    /\ \A j \in Candidates :
         scores[j].total_score = scores[best_index].total_score =>
           scores[best_index].issue_count <= scores[j].issue_count
    /\ scores = ExampleTableA => best_index = 3
    /\ scores = ExampleTableB => best_index = 2

\* the candidate with the highest score and the most issues was chosen
C9_Witness ==
  /\ scores = ExampleTableA
  /\ best_index = 3

\* the answer reviewer r gave on candidate i: reviewer r issues the calls
\* (r - 1) * GENERATE_CANDIDATES + 1 .. r * GENERATE_CANDIDATES
AnswerOf(r, i) == ScriptAnswer((r - 1) * GENERATE_CANDIDATES + i)

\* the answers the reviewers 1..n gave on candidate i, as a bag: how often
\* each answer was given, and nothing of the order they were given in
RECURSIVE AnswerBag(_, _)
AnswerBag(i, n) ==
  IF n = 0 THEN EmptyBag
  ELSE AnswerBag(i, n - 1) (+) SetToBag({AnswerOf(n, i)})

\* the score an answer stands for: 0 for a failed call; in the leader script
\* the number the answer writes, 9 for a 9.5 that only the pattern reads
AnswerScore(a) ==
  IF a.failed THEN 0
  ELSE IF "issues" \in DOMAIN a
    THEN (IF a.score = -2 THEN BigInt(MostDigits) ELSE a.score)
  ELSE CASE a.score = <<"\"", "8", "5", "\"">> -> 85
         [] a.score = <<"7", "0">> -> 70
         [] a.score = <<"\"", "-", "5", "\"">> -> 0 - 5
         [] a.score = <<"-", "9", "0">> -> 0 - 90
         [] a.score = <<"9", ".", "5">> -> 9
         [] a.score = <<MostDigitsScore>> -> BigInt(MostDigits)

\* the number of issues an answer names; the leader script asks for none
AnswerIssues(a) ==
  IF a.failed \/ "issues" \notin DOMAIN a THEN 0 ELSE Len(a.issues)

\* what the scores of the answers of a bag add up to
RECURSIVE BagScore(_)
BagScore(b) ==
  IF BagToSet(b) = {} THEN 0
  ELSE LET a == CHOOSE x \in BagToSet(b) : TRUE
       IN py_add(AnswerScore(a), BagScore(b (-) SetToBag({a})))

\* the number of issues the answers of a bag name
RECURSIVE BagIssues(_)
BagIssues(b) ==
  IF BagToSet(b) = {} THEN 0
  ELSE LET a == CHOOSE x \in BagToSet(b) : TRUE
       IN AnswerIssues(a) + BagIssues(b (-) SetToBag({a}))

\* C10: of several candidates tied on total_score and issue_count the one with
\* the lowest id is chosen, whatever the order the scores were accumulated
\* in: the totals the choice is made on are those of the bag of the answers
\* given on a candidate, and none of the candidates that equal the chosen
\* one in both has a lower id. The same holds in step3_optimize of
\* generate_requirement_leader.py for candidates tied on total_score.
C10_TieLowestId ==
  /\ phase = "step4" =>
       /\ step3_call.best_index \in Candidates
       /\ \A j \in Candidates :
            /\ py_equal(step2_scores[j].total_score,
                        BagScore(AnswerBag(j, Len(doc_reviewer_models))))
            /\ step2_scores[j].issue_count
                 = BagIssues(AnswerBag(j, Len(doc_reviewer_models)))
            /\ (/\ AnswerBag(j, Len(doc_reviewer_models))
                     = AnswerBag(step3_call.best_index, Len(doc_reviewer_models))
                => step3_call.best_index <= j)
            /\ (/\ py_equal(step2_scores[j].total_score,
                            step2_scores[step3_call.best_index].total_score)
                /\ step2_scores[j].issue_count
                     = step2_scores[step3_call.best_index].issue_count)
                 => step3_call.best_index <= j
  /\ phase = "leader_done" =>
       /\ step3_call.best_index \in 1..LEADER_CANDIDATES
       /\ \A j \in 1..LEADER_CANDIDATES :
            /\ py_equal(leader_scores[j].total_score,
                        BagScore(AnswerBag(j, Len(doc_reviewer_models))))
            /\ ~py_less(leader_scores[step3_call.best_index].total_score,
                        leader_scores[j].total_score)
            /\ py_equal(leader_scores[j].total_score,
                        leader_scores[step3_call.best_index].total_score)
                 => step3_call.best_index <= j

\* two reviewers gave candidates 2 and 4 the same two answers, the one in
\* the opposite order of the other: the two are tied on both sums, ahead of
\* the rest, and candidate 2 was chosen
C10_Witness ==
  /\ phase = "step4"
  /\ Len(doc_reviewer_models) = 2
  /\ reply_script = TieScript
  /\ AnswerOf(1, 2) = AnswerOf(2, 4)
  /\ AnswerOf(2, 2) = AnswerOf(1, 4)
  /\ AnswerOf(1, 2) # AnswerOf(2, 2)
  /\ AnswerBag(2, 2) = AnswerBag(4, 2)
  /\ step2_scores[2].total_score = step2_scores[4].total_score
  /\ step2_scores[2].issue_count = step2_scores[4].issue_count
  /\ step3_call.best_index = 2

\* ------------------------------------------------------------------------
\* Claims about the alignment rounds, the configuration and the verdicts
\* ------------------------------------------------------------------------

\* the summary each of the enumerated alignment responses is to give
ExpectedAlignSummary(response) ==
  CASE response = EmptyText -> EmptyText
    [] response = PlainAlignReply -> <<"a", "b">>
    [] response = LabeledAlignReply -> <<"s">>
    [] response = OtherLabeledAlignReply -> <<"u">>
    [] response = LongAlignReply -> [i \in 1..500 |-> "a"]

\* C11: step71_align_interfaces issues exactly ALIGN_ROUNDS generation calls
\* whatever the replies hold, failed and empty replies included: every round
\* issues one call and the function returns only after ALIGN_ROUNDS of them.
\* The summary it holds after a round, the last one included, is the one
\* extracted from that round's reply alone; nothing of an earlier round's
\* summary is kept.
C11_AlignRoundsLastSummary ==
  /\ [](phase = "step71" =>
         /\ n_align = align_i - 1
         /\ n_align <= ALIGN_ROUNDS
         /\ n_align > 0 =>
              previous_round_summary = ExpectedAlignSummary(last_response))
  /\ [][phase = "step71" =>
          \/ /\ phase' = "step71"
             /\ n_align' = n_align + 1
             /\ llm_call_index' = llm_call_index + 1
          \/ /\ phase' = "step72"
             /\ n_align = ALIGN_ROUNDS
             /\ llm_call_index' = llm_call_index]_vars

\* the last of the ALIGN_ROUNDS calls failed and no summary is held
C11_Witness ==
  /\ phase = "step71"
  /\ n_align = ALIGN_ROUNDS
  /\ align_i = ALIGN_ROUNDS + 1
  /\ last_response = EmptyText
  /\ previous_round_summary = EmptyText
  /\ llm_call_index > ALIGN_ROUNDS

\* the steps of main(), and the two ways it returns
StepPhases ==
  {"step1", "step2", "step3", "step4", "step5", "step6", "step71", "step72",
   "done", "aborted"}

\* the configured value is the empty list
EmptyList(cfg_models) == type_of(cfg_models) = "str" /\ Len(cfg_models) = 0

\* the configuration names no model: the empty list, or no value at all
NoModels(cfg_models) ==
  type_of(cfg_models) = "NoneType" \/ EmptyList(cfg_models)

\* the lookup of a list raises: the configuration, its agents section or
\* the section of the role is no mapping
LookupFails(role) == is_attribute_error(config_models(config, role))

\* C12 as claimed: an empty reviewer list or writer list is rejected up
\* front, so that main() never goes on to its steps with one.
C12_EmptyListRejected ==
  (/\ ~LookupFails(KeyWriter) /\ ~LookupFails(KeyReviewer)
   /\ \/ EmptyList(config_models(config, KeyWriter))
      \/ EmptyList(config_models(config, KeyReviewer)))
    => phase \notin StepPhases

\* C12: the reviewer list and the writer list handed to the steps are never
\* empty, and no empty list is rejected: main() replaces a configured list
\* that is empty, missing or without a value by the one-element list [None],
\* the default model, and goes on to its steps; any other configured value
\* is handed on as it is. No loop runs with zero reviewers: a loop that
\* ended CONVERGED has issued a review call. main() runs no step only when
\* the lookup of a list itself raises, the configuration or one of the
\* sections looked into being no mapping; it has then issued no call.
C12_EmptyListDefaulted ==
  /\ (LookupFails(KeyWriter) \/ LookupFails(KeyReviewer)) =>
       /\ phase \in {"config", "crashed"}
       /\ llm_call_index = 0
  /\ (~LookupFails(KeyWriter) /\ ~LookupFails(KeyReviewer)) =>
       /\ phase \in StepPhases \cup {"config", "crashed"}
       /\ phase = "crashed" => llm_call_index > 0
       /\ phase # "config" =>
            /\ Len(doc_reviewer_models) >= 1
            /\ Len(doc_writer_models) >= 1
            /\ doc_reviewer_models =
                 (IF NoModels(config_models(config, KeyReviewer))
                    THEN <<None>> ELSE config_models(config, KeyReviewer))
            /\ doc_writer_models =
                 (IF NoModels(config_models(config, KeyWriter))
                    THEN <<None>> ELSE config_models(config, KeyWriter))
            /\ (pc = "exited" /\ exit_reason = "converged") => n_review >= 1

\* the configuration gave the empty list for both roles, and the module
\* loop converged on the verdict of the default reviewer
C12_Witness ==
  /\ phase = "step6"
  /\ ~LookupFails(KeyWriter) /\ ~LookupFails(KeyReviewer)
  /\ EmptyList(config_models(config, KeyWriter))
  /\ EmptyList(config_models(config, KeyReviewer))
  /\ doc_reviewer_models = <<None>>
  /\ doc_writer_models = <<None>>
  /\ pc = "exited"
  /\ exit_reason = "converged"
  /\ n_review = 1

\* the review calls of the pass that returned a reply text
RepliedCalls == {k \in 1..Len(pass_replied) : pass_replied[k]}

\* C13 as claimed: a review call that fails (its reply is empty or absent)
\* contributes no verdict: the verdict list the loop evaluates holds one
\* verdict per call that returned a reply and none for a failed call, so a
\* pass in which one reviewer failed and every other reviewer was satisfied
\* with no issues ends the loop CONVERGED.
C13_FailedCallNoVerdict ==
  phase \in LoopPhases =>
    /\ Len(review_parsed_list) = Cardinality(RepliedCalls)
    /\ (/\ pc = "exited"
        /\ exit_reason # "while_exit"
        /\ Len(pass_replied) = Len(doc_reviewer_models)
        /\ Cardinality(RepliedCalls) = Len(pass_replied) - 1
        /\ RepliedCalls # {}
        /\ \A k \in RepliedCalls : k <= Len(review_parsed_list)
                                     /\ FullySatisfied(review_parsed_list[k]))
         => Outcome = "CONVERGED"

\* the text holds a "{" with a "}" somewhere after it
HasObject(t) ==
  \E i \in 1..Len(t) : t[i] = "{" /\ \E j \in (i + 1)..Len(t) : t[j] = "}"

\* t without its leading and trailing whitespace
Trimmed(t) ==
  LET solid == {i \in 1..Len(t) : ~IsSpace(t[i])}
  IN IF solid = {} THEN EmptyText
     ELSE SubSeq(t, FirstOf(solid), LastOf(solid))

\* C14: for every malformed reply, the empty string and any non-empty text
\* that holds no JSON-like object, parse_review_response returns exactly the
\* default {satisfied: False, issues: [], suggestions: "", score: 0} and
\* does not raise.
C14_MalformedGivesDefault ==
  (phase = "parse" /\ parse_out.status # "not_called" /\ ~HasObject(parse_in))
    => /\ parse_out.status = "returned"
       /\ parse_out.value = DefaultVerdict

\* the call on a text without an object, a score key followed by 4301
\* digits, has raised
C14_Witness ==
  /\ phase = "parse"
  /\ parse_in = ScoreLineText(TooManyDigits)
  /\ ~HasObject(parse_in)
  /\ parse_out.status = "raised"

\* the name a reviewer identity is shown under
NameOf(model) == IF model = None THEN <<"<default-model>">> ELSE <<model>>

\* every block the merge builds from the k-th verdict opens with the name of
\* the k-th configured reviewer in brackets
BlocksNameReviewer(k) ==
  LET blocks == pair_parts(reviewer_labels[k], review_parsed_list[k])
      tag == <<"[">> \o NameOf(doc_reviewer_models[k]) \o <<"]", " ">>
  IN \A b \in 1..Len(blocks) : SubSeq(blocks[b], 1, Len(tag)) = tag

\* C15: within one review pass the calls go to doc_reviewer_models in the
\* configured order; after each call the verdict list and the label list
\* have equal length, labels[k] names the reviewer that produced
\* verdicts[k], and the merged feedback attributes each block to that
\* reviewer.
C15_OrderedLabelledVerdicts ==
  (phase \in {"step6", "step72"} /\ pc # "while") =>
    /\ Len(review_parsed_list) = Len(reviewer_labels)
    /\ Len(reviewer_labels) = Len(pass_models)
    /\ Len(pass_models) <= Len(doc_reviewer_models)
    /\ for_idx = Len(pass_models) + 1
    /\ \A k \in 1..Len(pass_models) :
         /\ pass_models[k] = doc_reviewer_models[k]
         /\ reviewer_labels[k] = NameOf(pass_models[k])
         /\ BlocksNameReviewer(k)
    /\ merge_suggestions_from_parsed(review_parsed_list, reviewer_labels)
         = Join(<<"\n", "\n">>,
                merge_parts(review_parsed_list, reviewer_labels,
                            Len(pass_models)))

\* both configured reviewers were called in one pass, each gave feedback,
\* and the merged text holds a block for each of them
C15_Witness ==
  /\ phase = "step6" /\ pc = "for"
  /\ Len(doc_reviewer_models) = 2
  /\ doc_reviewer_models[1] # doc_reviewer_models[2]
  /\ pass_models = doc_reviewer_models
  /\ reviewer_labels = <<NameOf(doc_reviewer_models[1]), NameOf(doc_reviewer_models[2])>>
  /\ Len(review_parsed_list) = 2
  /\ \A k \in 1..2 : Len(pair_parts(reviewer_labels[k], review_parsed_list[k])) > 0

\* ------------------------------------------------------------------------
\* Claims about the optimize call and the end of the loop
\* ------------------------------------------------------------------------

\* the loop is about to issue its optimize call
AtOptimize == phase \in {"step6", "step72"} /\ pc = "optimize"

\* C16: an optimize call is issued only when, after the review pass of the
\* cycle, the verdicts are not converged, the merged feedback is not empty
\* and call_count is below the budget. Then one optimize call is issued: it
\* adds exactly one to call_count, the call before it was a review call (no
\* two optimize calls follow each other), and it is issued before the first
\* review call of the next cycle.
C16_OptimizeOnlyWithFeedbackAndBudget ==
  /\ [](AtOptimize =>
          /\ is_all_satisfied(review_parsed_list) = PyFalse
          /\ merge_suggestions_from_parsed(review_parsed_list, reviewer_labels)
               # EmptyText
          /\ call_count < Budget
          /\ last_call = "review"
          /\ Len(review_parsed_list) = Len(doc_reviewer_models))
  /\ [][n_opt' > n_opt =>
          /\ AtOptimize
          /\ n_opt' = n_opt + 1
          /\ call_count' = call_count + 1
          /\ llm_call_index' = llm_call_index + 1
          /\ n_review' = n_review
          /\ pc' = "while"]_vars
  /\ [][(n_review' > n_review /\ n_review > 0 /\ for_idx = 1) =>
          last_call = "optimize"]_vars
  /\ [][(n_review' > n_review /\ for_idx > 1) => last_call = "review"]_vars

\* the second cycle has begun: its first review call follows the one
\* optimize call of the first cycle
C16_Witness ==
  /\ phase = "step72" /\ pc = "for"
  /\ Len(doc_reviewer_models) = 2
  /\ n_opt = 1
  /\ n_review = 3
  /\ call_count = 4
  /\ last_call = "review"

\* C17 as claimed: the loop enters BUDGET_EXHAUSTED only directly after a
\* review pass whose verdicts were not converged and whose merged feedback
\* was not empty; so whenever the loop has ended, no optimize call was issued
\* after the last collected verdict set.
C17_ExhaustedOnlyAfterPass ==
  (phase \in {"step6", "step72"} /\ pc = "exited") =>
    /\ last_call # "optimize"
    /\ Outcome = "BUDGET_EXHAUSTED" =>
         /\ last_call = "review"
         /\ is_all_satisfied(review_parsed_list) = PyFalse
         /\ merge_suggestions_from_parsed(review_parsed_list, reviewer_labels)
              # EmptyText

\* the verdict has satisfied = False, no issues and no suggestions
SilentlyUnsatisfied(v) ==
  /\ v.satisfied = PyFalse
  /\ EmptyIssueList(v)
  /\ type_of(v.suggestions) = "str" /\ Len(v.suggestions) = 0

\* the reviewer loop of the pass is over and the verdicts are evaluated
JudgeStep == phase \in {"step6", "step72"} /\ pc = "for" /\ pc' # "for"

\* C19: when the verdicts of a pass are not converged but the merged feedback
\* is the empty string, the loop ends in NO_FEEDBACK after that pass and
\* issues no optimize call, even when budget remains.
C19_NoFeedbackTerminal ==
  /\ [][(/\ JudgeStep
          /\ is_all_satisfied(review_parsed_list) = PyFalse
          /\ merge_suggestions_from_parsed(review_parsed_list, reviewer_labels)
               = EmptyText)
          => /\ pc' = "exited"
             /\ Outcome' = "NO_FEEDBACK"
             /\ n_opt' = n_opt
             /\ llm_call_index' = llm_call_index]_vars
  /\ [][Outcome = "NO_FEEDBACK" =>
          /\ pc = "exited"
          /\ llm_call_index' = llm_call_index
          /\ n_opt' <= n_opt]_vars
  /\ [](\A k \in 1..Len(review_parsed_list) :
          SilentlyUnsatisfied(review_parsed_list[k]) =>
            pair_parts(reviewer_labels[k], review_parsed_list[k]) = <<>>)

\* two reviewers were unsatisfied without issues or suggestions: the loop
\* has ended in NO_FEEDBACK after one pass, most of its budget unspent
C19_Witness ==
  /\ phase = "step72" /\ pc = "exited"
  /\ Outcome = "NO_FEEDBACK"
  /\ Len(review_parsed_list) = 2
  /\ \A k \in 1..2 : SilentlyUnsatisfied(review_parsed_list[k])
  /\ \E k \in 1..2 : pass_replied[k]
  /\ call_count = 2
  /\ call_count < Budget
  /\ n_opt = 0

\* ------------------------------------------------------------------------
\* Claims about the writers of the alignment rounds
\* ------------------------------------------------------------------------

\* the writer of round i when the writers take turns in configured order:
\* i - 1 = q * len + r with 0 <= r < len, and the writer is the one at
\* offset r of the list
WriterInTurn(i) ==
  LET len == Len(doc_writer_models)
      r == CHOOSE x \in 0..(len - 1) : \E q \in 0..i : i - 1 = q * len + x
  IN doc_writer_models[r + 1]

\* C20: in step71_align_interfaces round i (1-based) uses the writer
\* doc_writer_models[(i - 1) mod len(doc_writer_models)]: the writers take
\* turns in configured order and the turn wraps around when there are fewer
\* writers than rounds.
C20_WritersRoundRobin ==
  phase = "step71" =>
    /\ Len(align_models) = n_align
    /\ \A i \in 1..n_align : align_models[i] = WriterInTurn(i)
    /\ \A i \in 1..n_align :
         i > Len(doc_writer_models) =>
           align_models[i] = align_models[i - Len(doc_writer_models)]

\* two writers served the five rounds in turns
C20_Witness ==
  /\ phase = "step71"
  /\ doc_writer_models = <<"gpt", "claude">>
  /\ n_align = ALIGN_ROUNDS
  /\ align_models = <<"gpt", "claude", "gpt", "claude", "gpt">>

\* ------------------------------------------------------------------------
\* Claims about the summary the alignment rounds carry
\* ------------------------------------------------------------------------

\* the summary embedded in a prev_context: the text between the line of
\* instructions and the empty line that ends the context; empty when there
\* is no context
EmbeddedSummary(context) ==
  IF context = EmptyText THEN EmptyText
  ELSE LET at == CHOOSE p \in 1..Len(context) : context[p] = "<prev-round-advice>"
       IN SubSeq(context, at + 2, Len(context) - 2)

\* C21: in step71_align_interfaces the carried summary is empty at round 1;
\* for every round i > 1 the summary embedded in the prompt of round i is the
\* one extracted from the reply of round i - 1 alone: it is overwritten each
\* round and holds no text of the rounds before i - 1.
C21_SummaryLastWriteWins ==
  phase = "step71" =>
    /\ n_align = 0 => previous_round_summary = EmptyText
    /\ n_align = 1 => last_prev_context = EmptyText
    /\ n_align > 1 =>
         EmbeddedSummary(last_prev_context) = ExpectedAlignSummary(prev_response)
    /\ n_align > 0 =>
         previous_round_summary = ExpectedAlignSummary(last_response)

\* the third call followed a labeled reply: its prompt embeds the block of
\* that reply and nothing else, and its own reply gave the next summary
C21_Witness ==
  /\ phase = "step71"
  /\ n_align = 3
  /\ prev_response = LabeledAlignReply
  /\ EmbeddedSummary(last_prev_context) = <<"s">>
  /\ last_response = PlainAlignReply
  /\ previous_round_summary = <<"a", "b">>

\* the reply holds the summary label
HasLabel(t) == Contains(t, SummaryLabel)

\* the text of the labeled block: what follows the first label, up to the
\* next "<[>" or the end of the reply, without surrounding whitespace
BlockContent(t) ==
  LET at == CHOOSE p \in 1..Len(t) :
              /\ SubSeq(t, p, p + Len(SummaryLabel) - 1) = SummaryLabel
              /\ \A q \in 1..(p - 1) :
                   SubSeq(t, q, q + Len(SummaryLabel) - 1) # SummaryLabel
      from == at + Len(SummaryLabel)
      upto == CHOOSE e \in from..(Len(t) + 1) :
                /\ (e = Len(t) + 1 \/ t[e] = "<[>")
                /\ \A q \in from..(e - 1) : t[q] # "<[>"
  IN Trimmed(SubSeq(t, from, upto - 1))

\* the last n characters of t
Trailing(t, n) == SubSeq(t, IF Len(t) > n THEN Len(t) - n + 1 ELSE 1, Len(t))

\* C22 as claimed: the summary extracted from an alignment reply is the
\* content of the labeled block when the reply holds the label, the trailing
\* 500 characters of the reply when it does not, and the empty string when
\* the call failed, so that the next round gets no context.
C22_SummaryOfReply ==
  (phase = "step71" /\ n_align > 0) =>
    /\ HasLabel(last_response)
         => previous_round_summary = BlockContent(last_response)
    /\ (~HasLabel(last_response) /\ last_response # EmptyText)
         => previous_round_summary = Trailing(last_response, 500)
    /\ last_response = EmptyText => previous_round_summary = EmptyText
    /\ (n_align > 1 /\ prev_response = EmptyText)
         => last_prev_context = EmptyText

\* ------------------------------------------------------------------------
\* Claims about the scoring of the candidates
\* ------------------------------------------------------------------------

RECURSIVE SeqSum(_)
SeqSum(ns) == IF Len(ns) = 0 THEN 0 ELSE ns[1] + SeqSum(Tail(ns))

\* the number of reviewers that have scored candidate i so far
ReviewersDone(i) ==
  IF i < step2_i THEN step2_reviewer_idx ELSE step2_reviewer_idx - 1

\* what the answers given on candidate i add up to
AnsweredScore(i) ==
  SeqSum([r \in 1..ReviewersDone(i) |->
            IF AnswerOf(r, i).failed THEN 0 ELSE AnswerOf(r, i).score])

AnsweredIssues(i) ==
  SeqSum([r \in 1..ReviewersDone(i) |->
            IF AnswerOf(r, i).failed THEN 0 ELSE Len(AnswerOf(r, i).issues)])

\* C23: after step2_review_overall, for every candidate i, total_score is the
\* sum over all reviewers of the parsed score for that candidate and
\* issue_count is the sum over all reviewers of the number of parsed issues;
\* exactly len(doc_reviewer_models) * GENERATE_CANDIDATES review calls are
\* issued, and a failed call adds 0 to both sums.
C23_ScoreSums ==
  phase \in {"step2", "step3"} =>
    /\ \A i \in 1..GENERATE_CANDIDATES :
         /\ step2_scores[i].total_score = AnsweredScore(i)
         /\ step2_scores[i].issue_count = AnsweredIssues(i)
    /\ llm_call_index = calls_before_step2 + step2_call_count
    /\ step2_call_count
         = (step2_reviewer_idx - 1) * GENERATE_CANDIDATES + step2_i - 1
    /\ phase = "step3" =>
         /\ step2_call_count = Len(doc_reviewer_models) * GENERATE_CANDIDATES
         /\ \A i \in 1..GENERATE_CANDIDATES :
              ReviewersDone(i) = Len(doc_reviewer_models)

\* two reviewers have scored the five candidates; the first call failed, the
\* second reviewer gave candidate 1 a score of 40 and two issues
C23_Witness ==
  /\ phase = "step3"
  /\ Len(doc_reviewer_models) = 2
  /\ step2_call_count = 10
  /\ AnswerOf(1, 1).failed
  /\ ~AnswerOf(2, 1).failed
  /\ step2_scores[1].total_score = 40
  /\ step2_scores[1].issue_count = 2
  /\ step2_scores[2].total_score = 40
  /\ step2_scores[2].issue_count = 2

\* the verdict parse_review_response is to give for an answer: the scoring
\* format has no "satisfied" key, and a failed call has no reply at all
AnsweredVerdict(a) ==
  [satisfied |-> PyFalse, issues |-> a.issues, suggestions |-> a.suggestions,
   score |-> a.score]

\* the verdict is unsatisfied or carries suggestions
NonTrivial(v) == v.satisfied # PyTrue \/ v.suggestions # EmptyText

\* the verdict has an issue or carries suggestions
HasFeedback(v) == v.issues # <<>> \/ v.suggestions # EmptyText

\* the reviewers 1..n, in configured order, whose verdict on candidate i is
\* non-trivial (byFlag) or has feedback (~byFlag)
RECURSIVE Contributors(_, _, _)
Contributors(i, n, byFlag) ==
  IF n = 0 THEN <<>>
  ELSE LET v == AnsweredVerdict(AnswerOf(n, i))
       IN Contributors(i, n - 1, byFlag)
          \o (IF (byFlag /\ NonTrivial(v)) \/ (~byFlag /\ HasFeedback(v))
                THEN <<n>> ELSE <<>>)

\* the labels and the verdicts of candidate i are those of the reviewers rs
ListsAreOf(i, rs) ==
  /\ step2_scores[i].labels
       = [k \in 1..Len(rs) |-> NameOf(doc_reviewer_models[rs[k]])]
  /\ step2_scores[i].suggestions_by_model
       = [k \in 1..Len(rs) |-> AnsweredVerdict(AnswerOf(rs[k], i))]

\* C24 as claimed: after step2_review_overall each candidate's contributing
\* list holds exactly the (reviewer label, verdict) pairs whose verdict is
\* non-trivial (unsatisfied or carrying suggestions), in configured reviewer
\* order, and its verdict list and label list have the same length.
C24_ContributingNonTrivial ==
  phase \in {"step2", "step3"} =>
    \A i \in 1..GENERATE_CANDIDATES :
      /\ Len(step2_scores[i].labels) = Len(step2_scores[i].suggestions_by_model)
      /\ ListsAreOf(i, Contributors(i, ReviewersDone(i), TRUE))

\* C24, amended: each candidate's contributing list holds exactly the
\* (reviewer label, verdict) pairs whose verdict has at least one issue or
\* non-empty suggestions, in configured reviewer order; a verdict that is
\* unsatisfied but has neither is left out. The verdict list and the label
\* list always have the same length.
C24_ContributingWithFeedback ==
  phase \in {"step2", "step3"} =>
    \A i \in 1..GENERATE_CANDIDATES :
      /\ Len(step2_scores[i].labels) = Len(step2_scores[i].suggestions_by_model)
      /\ ListsAreOf(i, Contributors(i, ReviewersDone(i), ~TRUE))

\* two reviewers have scored the candidates: on candidate 1 the first gave a
\* score and nothing else and is left out, the second gave issues and is in;
\* on candidate 2 it is the other way round
C24_Witness ==
  /\ phase = "step3"
  /\ Len(doc_reviewer_models) = 2
  /\ ~AnswerOf(1, 1).failed
  /\ ~HasFeedback(AnsweredVerdict(AnswerOf(1, 1)))
  /\ step2_scores[1].labels = <<NameOf(doc_reviewer_models[2])>>
  /\ Len(step2_scores[1].suggestions_by_model) = 1
  /\ step2_scores[2].labels = <<NameOf(doc_reviewer_models[1])>>
  /\ Len(step2_scores[2].suggestions_by_model[1].issues) > 0

\* ------------------------------------------------------------------------
\* Claims about the values parse_review_response returns
\* ------------------------------------------------------------------------

\* parse_review_response has returned
Parsed == phase = "parse" /\ parse_out.status = "returned"

\* C25 as claimed: every value parse_review_response returns, for any reply
\* text, is a well-formed verdict: satisfied is a boolean, issues a sequence,
\* suggestions a string and score an integer, so that len(issues) in
\* is_all_satisfied and in the loops cannot fail.
C25_WellFormedVerdict ==
  Parsed =>
    /\ parse_types.satisfied = "bool"
    /\ parse_types.issues = "list"
    /\ parse_types.suggestions = "str"
    /\ parse_types.score = "int"
    /\ ~len_raises(parse_types.issues)

\* the value text without its quotes, when it is a JSON string
Unquoted(v) ==
  IF Len(v) >= 2 /\ v[1] = "\"" /\ v[Len(v)] = "\""
    THEN SubSeq(v, 2, Len(v) - 1) ELSE v

\* a non-empty text of decimal digits, of whatever script
AllDigits(t) == Len(t) > 0 /\ \A i \in 1..Len(t) : IsDecimal(t[i])

\* the digits the text begins with
LeadingDigits(t) ==
  LET others == {i \in 1..Len(t) : ~IsDecimal(t[i])}
  IN IF others = {} THEN t ELSE SubSeq(t, 1, FirstOf(others) - 1)

\* the number a text stands for when it is all digits, else 0
DigitsOrZero(t) == IF AllDigits(t) THEN int_of_digits(t) ELSE 0

\* int() converts the text: decimal digits only, and no more than it takes
Convertible(t) == AllDigits(t) /\ ~too_many_digits(t)

\* what the pattern of line 150 reads from the score value v written after
\* the key: the digits it begins with, an opening quote skipped
PatternScore(v) == DigitsOrZero(LeadingDigits(Unquoted(v)))

\* C26 as claimed: the score parse_review_response returns is the decoded
\* integer when the score value of the reply consists of digits only and 0
\* otherwise (negative, fractional and non-numeric values give 0); a value
\* above 100 is passed through, so the score is a non-negative integer.
C26_ScoreDigitsOnlyElseZero ==
  Parsed =>
    /\ parse_types.score = "int"
    /\ parse_out.value.score >= 0
    /\ \A v \in ScoreValueTexts :
         parse_in \in {ScoreObjectText(v), ScoreLineText(v), ScoreBrokenText(v)}
           => parse_out.value.score = DigitsOrZero(Unquoted(v))

\* C26, amended: a score parse_review_response returns is a non-negative
\* integer and is never clamped. The digits-only rule holds where the reply
\* decodes as a JSON object: the score is the integer of the score value
\* when int() converts that value (its text, without the whitespace at its
\* ends, is decimal digits only, 4300 at most), and 0 when str.isdigit
\* rejects that text (a negative, fractional, boolean or non-numeric value).
\* In every other case, when the reply does not decode as an object or
\* int() does not convert the digits of the value, the score is read by the
\* pattern "score"\s*:\s*"?(\d+): it is the integer of the run of decimal
\* digits right after the key, whatever follows the run, so 9.5 gives 9 and
\* "12a" gives 12, and 0 when no digit is there.
C26_ScoreByPath ==
  Parsed =>
    /\ parse_types.score = "int"
    /\ parse_out.value.score >= 0
    /\ \A v \in ScoreValueTexts :
         /\ parse_in = ScoreObjectText(v)
              => parse_out.value.score =
                   (IF Convertible(Trimmed(Unquoted(v)))
                      THEN int_of_digits(Trimmed(Unquoted(v)))
                    ELSE IF ~isdigit(Trimmed(Unquoted(v))) THEN 0
                    ELSE PatternScore(v))
         /\ parse_in \in {ScoreLineText(v), ScoreBrokenText(v)}
              => parse_out.value.score = PatternScore(v)

\* a score of 250 in a decoded object was passed through
C26_Witness ==
  /\ Parsed
  /\ parse_in = ScoreObjectText(<<"2", "5", "0">>)
  /\ parse_out.value.score = 250
  /\ DigitsOrZero(<<BengaliThree>>) = 3
  /\ DigitsOrZero(<<EthiopicOne>>) = 0

\* ------------------------------------------------------------------------
\* Claims about the budget of the loops
\* ------------------------------------------------------------------------

\* C27: the loop of each module in step6_review_optimize_module has a call
\* count of its own: it starts at 0 for every module, it counts the calls of
\* that module only, and the loop goes on or stops on that count alone; the
\* calls spent on other modules and the global counter _llm_call_index do
\* not matter.
C27_ModuleOwnsCallCount ==
  /\ [](phase = "step6" =>
          /\ call_count = n_review + n_opt
          /\ llm_call_index >= call_count)
  /\ [][(phase = "step6" /\ module_idx' # module_idx) =>
          (call_count' = 0 /\ pc' = "while")]_vars
  /\ [][(phase = "step6" /\ pc = "while" /\ pc' = "for") =>
          n_review + n_opt < (Len(doc_reviewer_models) + 1) * factor]_vars
  /\ [][(phase = "step6" /\ pc = "while" /\ pc' = "exited") =>
          n_review + n_opt = (Len(doc_reviewer_models) + 1) * factor]_vars

\* the second module starts another pass after its first optimize call
\* although the calls of the run, those of the first module included, are
\* more than one budget
C27_Witness ==
  /\ phase = "step6"
  /\ module_idx = 2
  /\ pc = "for"
  /\ n_opt = 1
  /\ call_count = Len(doc_reviewer_models) + 1
  /\ llm_call_index > Budget

\* C28: with the budget (n + 1) * REVIEW_OPTIMIZE_FACTOR and n >= 1
\* reviewers, every pass of step 6 and of step 7.2 collects exactly n
\* verdicts (the budget break inside the reviewer loop never fires), at most
\* REVIEW_OPTIMIZE_FACTOR optimize calls are issued, and a loop in which no
\* pass converges or gives empty feedback ends having used exactly the whole
\* budget.
C28_FullPassesWholeBudget ==
  /\ [][JudgeStep =>
          /\ for_idx = Len(doc_reviewer_models) + 1
          /\ Len(review_parsed_list) = Len(doc_reviewer_models)
          /\ Len(doc_reviewer_models) >= 1]_vars
  /\ [](phase \in {"step6", "step72"} =>
          /\ n_opt <= REVIEW_OPTIMIZE_FACTOR
          /\ (pc = "exited" /\ exit_reason \notin {"converged", "no_feedback"})
               => /\ exit_reason = "while_exit"
                  /\ n_review + n_opt
                       = (Len(doc_reviewer_models) + 1) * REVIEW_OPTIMIZE_FACTOR
                  /\ n_opt = REVIEW_OPTIMIZE_FACTOR
                  /\ n_review = Len(doc_reviewer_models) * REVIEW_OPTIMIZE_FACTOR)

\* the loop of a module with two reviewers has ended without a converged or
\* empty pass: five passes of two verdicts and five optimize calls
C28_Witness ==
  /\ phase = "step6"
  /\ pc = "exited"
  /\ Len(doc_reviewer_models) = 2
  /\ exit_reason = "while_exit"
  /\ n_review = 10
  /\ n_opt = 5
  /\ Len(review_parsed_list) = 2

\* ------------------------------------------------------------------------
\* Claims relating is_all_satisfied, the merge and the two loops
\* ------------------------------------------------------------------------

\* C29: whenever is_all_satisfied(verdicts) is true,
\* merge_suggestions_from_parsed(verdicts, labels) is the empty string (the
\* converse need not hold); and since the loops test convergence before the
\* feedback, a loop that ended in NO_FEEDBACK has collected at least one
\* verdict that is not satisfied with no issues.
C29_SatisfiedImpliesNoFeedbackText ==
  /\ (out_satisfied.called /\ out_satisfied.value = PyTrue
        /\ out_merged.status # "not_called")
       => out_merged.status = "returned" /\ out_merged.value = EmptyText
  /\ (phase \in {"step6", "step72"} /\ pc = "exited"
        /\ Outcome = "NO_FEEDBACK")
       => /\ is_all_satisfied(review_parsed_list) = PyFalse
          /\ \E k \in 1..Len(review_parsed_list) :
               ~(review_parsed_list[k].satisfied = PyTrue
                 /\ EmptyIssueList(review_parsed_list[k]))

\* both functions were applied to two satisfied verdicts without issues, one
\* of them with suggestions: all satisfied, and the merged text is empty
C29_Witness ==
  /\ phase = "pure"
  /\ Len(in_parsed) = 2
  /\ Len(in_labels) = 2
  /\ type_of(in_parsed[1].suggestions) = "str"
  /\ Len(in_parsed[1].suggestions) > 0
  /\ out_satisfied.called
  /\ out_satisfied.value = PyTrue
  /\ out_merged.status = "returned"
  /\ out_merged.value = EmptyText

\* the locals of the running loop and its latest call
LoopLocals ==
  [pc |-> pc, call_count |-> call_count, for_idx |-> for_idx,
   review_parsed_list |-> review_parsed_list,
   reviewer_labels |-> reviewer_labels, exit_reason |-> exit_reason,
   last_call |-> last_call, last_model |-> last_model]

\* the loop has made no call yet: the count is 0 and nothing is decided
\* (the lists and the reviewer index are assigned by the first pass)
FreshLocals ==
  /\ pc = "while"
  /\ call_count = 0
  /\ exit_reason = "none"
  /\ last_call = "none"
  /\ last_model = None

\* the one budget of a reviewer list
CommonBudget == (Len(doc_reviewer_models) + 1) * REVIEW_OPTIMIZE_FACTOR

\* the evaluation of a pass: converged, no feedback, budget, or optimize
AfterPass(s) ==
  IF is_all_satisfied(s.review_parsed_list) = PyTrue
    THEN [s EXCEPT !.pc = "exited", !.exit_reason = "converged"]
    ELSE IF merge_suggestions_from_parsed(s.review_parsed_list,
                                          s.reviewer_labels) = EmptyText
      THEN [s EXCEPT !.pc = "exited", !.exit_reason = "no_feedback"]
      ELSE IF s.call_count >= CommonBudget
        THEN [s EXCEPT !.pc = "exited", !.exit_reason = "budget_break"]
        ELSE [s EXCEPT !.pc = "optimize"]

\* the one state machine: the locals after the next step from the locals s,
\* parsed being the verdict of the call when the step is a review call
CommonStep(s, parsed) ==
  CASE s.pc = "while" ->
         IF s.call_count < CommonBudget
           THEN [s EXCEPT !.pc = "for", !.for_idx = 1,
                          !.review_parsed_list = <<>>,
                          !.reviewer_labels = <<>>]
           ELSE [s EXCEPT !.pc = "exited", !.exit_reason = "while_exit"]
    [] s.pc = "for" ->
         IF s.for_idx <= Len(doc_reviewer_models)
              /\ s.call_count < CommonBudget
           THEN [s EXCEPT
                   !.call_count = s.call_count + 1,
                   !.for_idx = s.for_idx + 1,
                   !.review_parsed_list = Append(s.review_parsed_list, parsed),
                   !.reviewer_labels =
                     Append(s.reviewer_labels,
                            reviewer_display(doc_reviewer_models[s.for_idx])),
                   !.last_call = "review",
                   !.last_model = doc_reviewer_models[s.for_idx]]
           ELSE AfterPass(s)
    [] s.pc = "optimize" ->
         [s EXCEPT !.pc = "while", !.call_count = s.call_count + 1,
                   !.last_call = "optimize",
                   !.last_model = doc_writer_models[1]]
    [] OTHER -> s

\* the verdict of the step's call: the last verdict of the list after it
StepVerdict(list) == IF list = <<>> THEN DefaultVerdict ELSE list[Len(list)]

\* a step of the running loop, of step 6 within one module or of step 7.2
LoopStepOf(ph) ==
  /\ phase = ph /\ phase' = ph
  /\ module_idx' = module_idx
  /\ pc # "exited"

\* C30: for one module, step6_review_optimize_module and
\* step72_review_optimize_all are the same state machine: each starts from
\* the same locals, and from the same locals, reviewer list and parsed
\* verdict each makes the same step (the same call kind by the same model,
\* the same call count after it, the same outcome when it stops), namely
\* the step of CommonStep.
C30_SameStateMachine ==
  /\ []((phase \in {"step6", "step72"} /\ pc = "while"
            /\ n_review + n_opt = 0)
          => FreshLocals)
  /\ [][LoopStepOf("step6") =>
          LoopLocals' = CommonStep(LoopLocals, StepVerdict(review_parsed_list'))
       ]_vars
  /\ [][LoopStepOf("step72") =>
          LoopLocals' = CommonStep(LoopLocals, StepVerdict(review_parsed_list'))
       ]_vars
  /\ [][(phase \in {"step6", "step72"} /\ n_review' > n_review) =>
          (phase' = "crashed"
             <=> \/ review_parsed_list' = review_parsed_list
                 \/ py_len_raises(StepVerdict(review_parsed_list').issues))
       ]_vars
  /\ [][(phase \in {"step6", "step72"} /\ phase' = "crashed") =>
          n_review' > n_review]_vars

\* the global loop, with two reviewers, ended converged after two reviews,
\* an optimize call and two more reviews: five calls, the last one by the
\* second reviewer
C30_Witness ==
  /\ phase = "step72"
  /\ pc = "exited"
  /\ Outcome = "CONVERGED"
  /\ Len(doc_reviewer_models) = 2
  /\ n_review = 4
  /\ n_opt = 1
  /\ call_count = 5
  /\ last_call = "review"
  /\ last_model = doc_reviewer_models[2]

\* the phases of main() in the order of its statements
MainPhases ==
  <<"config", "step1", "step2", "step3", "step4", "step5", "step6", "step71",
    "step72", "done">>

\* the phases in which an exception ends main(): the lookups of the
\* configuration, the scoring and the choice, and the refinement loops
CrashPhases == {"config", "step2", "step3", "step6", "step72"}

\* the place of a phase in that order; 0 for a pipeline that has stopped or
\* was ended by an exception
PhaseRank(ph) ==
  IF \E k \in 1..Len(MainPhases) : MainPhases[k] = ph
    THEN CHOOSE k \in 1..Len(MainPhases) : MainPhases[k] = ph
    ELSE 0

\* the calls steps 1 to 4 issue with the configured reviewers
CallsUpToStep4 ==
  GENERATE_CANDIDATES + Len(doc_reviewer_models) * GENERATE_CANDIDATES + 1 + 1

\* step 5 has issued a call
Step5Acted == step5_idx > 1

\* a refinement loop has issued a call
LoopActed == call_count > 0 \/ n_review > 0 \/ n_opt > 0 \/ last_call # "none"

\* the alignment has issued a call
AlignActed == n_align > 0 \/ align_i > 1

\* C31: main() goes through its phases strictly in the order generate
\* candidates, score candidates, optimize best, get modules, generate module
\* docs, per-module refinement, alignment, global refinement: every change
\* of phase is to the next one, each phase has issued all its calls when
\* the next one begins and issues calls only while it is the phase. The
\* pipeline leaves this order only by ending: from step 4 to the stopped
\* pipeline, exactly when the module list is empty, or by an exception that
\* nothing catches; from either no step follows, and no call of a later
\* phase was or is ever issued.
C31_PhasesInOrderEmptyModulesStop ==
  /\ [][phase' # phase =>
          \/ PhaseRank(phase') = PhaseRank(phase) + 1
          \/ phase = "step4" /\ phase' = "aborted" /\ modules' = <<>>
          \/ phase \in CrashPhases /\ phase' = "crashed"]_vars
  /\ [][(phase = "step4" /\ modules' = <<>>) => phase' = "aborted"]_vars
  /\ [][phase \notin {"aborted", "crashed"}]_vars
  /\ [](phase = "aborted" =>
          /\ modules = <<>>
          /\ llm_call_index = CallsUpToStep4
          /\ ~Step5Acted /\ ~LoopActed /\ ~AlignActed)
  /\ [](PhaseRank(phase) > PhaseRank("step4") => modules # <<>>)
  /\ [][step1_i' # step1_i => phase = "step1" /\ phase' = "step1"]_vars
  /\ [][step2_call_count' # step2_call_count
          => phase = "step2" /\ phase' \in {"step2", "crashed"}]_vars
  /\ [][step3_call' # step3_call => phase = "step3" /\ phase' = "step4"]_vars
  /\ [][modules' # modules => phase = "step4" /\ phase' = "step5"]_vars
  /\ [][step5_idx' # step5_idx => phase = "step5" /\ phase' = "step5"]_vars
  /\ [][call_count' > call_count => phase \in {"step6", "step72"}]_vars
  /\ [][n_align' > n_align => phase = "step71" /\ phase' = "step71"]_vars
  /\ [](PhaseRank(phase) > PhaseRank("step1") => step1_i = GENERATE_CANDIDATES + 1)
  /\ [](PhaseRank(phase) > PhaseRank("step2") =>
          step2_call_count = Len(doc_reviewer_models) * GENERATE_CANDIDATES)
  /\ [](PhaseRank(phase) > PhaseRank("step3") => step3_call.n = 1)
  /\ [](PhaseRank(phase) > PhaseRank("step5") => step5_idx = Len(modules) + 1)
  /\ [](PhaseRank(phase) > PhaseRank("step71") => n_align = ALIGN_ROUNDS)
  /\ [](step2_call_count > 0 => step1_i = GENERATE_CANDIDATES + 1)
  /\ [](step3_call.n > 0 =>
          step2_call_count = Len(doc_reviewer_models) * GENERATE_CANDIDATES)
  /\ [](modules # <<>> => step3_call.n = 1)
  /\ [](Step5Acted => modules # <<>>)
  /\ [](LoopActed => step5_idx = Len(modules) + 1)
  /\ [](AlignActed => loop_calls_done > 0 \/ module_idx > Len(modules))
  /\ [](PhaseRank(phase) \in 1..PhaseRank("step4") => ~Step5Acted)
  /\ [](PhaseRank(phase) \in 1..PhaseRank("step5") => ~LoopActed)
  /\ [](PhaseRank(phase) \in 1..PhaseRank("step6") => ~AlignActed)

\* step 4 got a reply without a module name, with two reviewers configured:
\* main() has stopped after the 5 + 10 + 1 + 1 calls of steps 1 to 4
C31_Witness ==
  /\ phase = "aborted"
  /\ modules = <<>>
  /\ Len(doc_reviewer_models) = 2
  /\ llm_call_index = 17
  /\ step5_idx = 1

\* the merged feedback of candidate i after step 2
MergedFeedbackOf(i) ==
  merge_suggestions_from_parsed(step2_scores[i].suggestions_by_model,
                                step2_scores[i].labels)

\* candidate i is the one step 3 has to select: no candidate has a higher
\* total, none with the same total has fewer issues, and none that equals it
\* in both comes before it
IsSelected(i) ==
  \A j \in 1..GENERATE_CANDIDATES :
    \/ py_less(step2_scores[j].total_score, step2_scores[i].total_score)
    \/ /\ py_equal(step2_scores[j].total_score, step2_scores[i].total_score)
       /\ \/ step2_scores[j].issue_count > step2_scores[i].issue_count
          \/ /\ step2_scores[j].issue_count = step2_scores[i].issue_count
             /\ i <= j

\* C32 as claimed: step3_optimize_overall always issues exactly one
\* optimize call, for the selected candidate and with doc_writer_models[0]:
\* none before step 3, one, counted once by the global counter, whenever
\* step 3 is left. The call
\* is made also when the merged feedback of that candidate is empty; the
\* feedback of the prompt is then the generic placeholder, and the merged
\* feedback otherwise.
C32_Step3AlwaysOneOptimizeCall ==
  /\ [](PhaseRank(phase) \in 1..PhaseRank("step3") => step3_call = NoStep3Call)
  /\ [](PhaseRank(phase) > PhaseRank("step3") \/ phase = "aborted" =>
          /\ step3_call.n = 1
          /\ step3_call.model = doc_writer_models[1]
          /\ IsSelected(step3_call.best_index)
          /\ step3_call.all_suggestions # EmptyText
          /\ step3_call.all_suggestions =
               (IF MergedFeedbackOf(step3_call.best_index) = EmptyText
                  THEN GenericAdvice
                  ELSE MergedFeedbackOf(step3_call.best_index)))
  /\ [][(phase = "step3" /\ phase' # "step3") =>
          /\ phase' = "step4"
          /\ llm_call_index' = llm_call_index + 1]_vars

\* the step issues a call: the counter of the phase's own loop goes up by
\* one, or the step is the one call of step 3 or of step 4
CallStep ==
  \/ step1_i' = step1_i + 1
  \/ step2_call_count' = step2_call_count + 1
  \/ step3_call'.n = step3_call.n + 1
  \/ phase = "step4" /\ phase' # "step4"
  \/ step5_idx' = step5_idx + 1
  \/ call_count' = call_count + 1
  \/ n_align' = n_align + 1

\* the calls of the alignment so far
AlignCallsSoFar == n_align

\* the call counts of the refinement loops run so far, the running one
\* included
LoopCallsSoFar == loop_calls_done + call_count

\* the calls issued so far, phase by phase
CallsSoFar ==
  (step1_i - 1) + step2_call_count + step3_call.n
  + (IF modules # <<>> \/ phase = "aborted" THEN 1 ELSE 0)
  + (step5_idx - 1) + LoopCallsSoFar + AlignCallsSoFar

\* C33: _llm_call_index goes up by exactly 1 with every call through
\* llm_call and is changed by nothing else: it never goes down and is not
\* set back when a loop or a module starts. So at every point it is the
\* number of calls issued in all phases so far, and it is at least the sum
\* of the call counts of the refinement loops run so far.
C33_GlobalIndexCountsEveryCall ==
  /\ [][CallStep => llm_call_index' = llm_call_index + 1]_vars
  /\ [][~CallStep => llm_call_index' = llm_call_index]_vars
  /\ [](llm_call_index = CallsSoFar)
  /\ [](llm_call_index >= LoopCallsSoFar)

\* the global loop is running after two modules were refined: the counter
\* holds the 5 + 5 + 1 + 1 + 2 calls of steps 1 to 5, the five alignment
\* calls and the calls of the three loops, which is more than the count of
\* the running loop and more than the three counts together
C33_Witness ==
  /\ phase = "step72"
  /\ Len(modules) = 2
  /\ Len(doc_reviewer_models) = 1
  /\ loop_calls_done >= 4
  /\ call_count >= 2
  /\ llm_call_index = 14 + ALIGN_ROUNDS + loop_calls_done + call_count
  /\ llm_call_index > max_calls

====
